---- MODULE Spec2Model ----
(***************************************************************************)
(* Gas refund program: the re-validation pass (validateTransactions), the  *)
(* budget guardian it drives and the rows it reads and writes.             *)
(*                                                                         *)
(* Units.  BigNumber amounts are modelled as integers:                     *)
(*   - PSP amounts are counted in base units; PspUnit stands for the       *)
(*     code's 10 ** 18 base units per token;                               *)
(*   - the refund percent is counted in quarters (0.25 -> 1 ... 1 -> 4),   *)
(*     so the unrounded _refundedAmountPSP is a number of quarter base     *)
(*     units and stays exact;                                              *)
(*   - USD amounts are counted in quarters of a thousandth of a dollar,    *)
(*     pspUsd is the price of PspUnit base units in thousandths of a       *)
(*     dollar, so amount * pspUsd / 10 ** 18 stays exact.                  *)
(***************************************************************************)
EXTENDS Integers, Sequences, FiniteSets, TLC

\* ------------------------------------------------------------------ bounds
MaxRows == 3
MaxPageSize == 3
StakeSpread == 6
MaxSwaps == 2
MaxEpochsAhead == 1
MaxClaimables == 4
MaxParticipations == 2
MaxGasUsed == 8
MaxSwapsPerSlice == 2

Hashes == 1..MaxRows
PageSizes == 1..MaxPageSize
Addresses == {"a1", "a2"}

\* --------------------------------------------------------------- constants
PspUnit == 1
PercentDenominator == 4
MilliUsd == 1000

TOTAL_EPOCHS_IN_YEAR == 26
GasRefundGenesisEpoch == 9
GasRefundBudgetLimitEpochBasedStartEpoch == 20
GasRefundPrecisionGlitchRefundedAmountsEpoch == 12

MAX_PSP_GLOBAL_BUDGET_YEARLY == 30000000 * PspUnit
MAX_USD_ADDRESS_BUDGET_YEARLY == 30000 * MilliUsd * PercentDenominator

\* BigNumber division: 20 decimals, ROUND_HALF_UP; here to the model's unit.
RoundHalfUp(n, d) == (2 * n + d) \div (2 * d)

MAX_USD_ADDRESS_BUDGET_EPOCH ==
    RoundHalfUp(MAX_USD_ADDRESS_BUDGET_YEARLY, TOTAL_EPOCHS_IN_YEAR)

IDLE == "idle"
VALIDATED == "validated"
REJECTED == "rejected"

\* The epochs whose calc interval the modelled timestamps fall in: two
\* timestamps in an epoch before the epoch based budget, one in an epoch after
\* it in the same year, and one in the first epoch of the next year.
EpochSchedule ==
    << GasRefundGenesisEpoch,
       GasRefundGenesisEpoch,
       GasRefundBudgetLimitEpochBasedStartEpoch,
       GasRefundGenesisEpoch + TOTAL_EPOCHS_IN_YEAR >>

Timestamps == 1..Len(EpochSchedule)

EpochOfTimestamp(ts) == EpochSchedule[ts]

\* What ingestion computed a row from: stake, gas fee, prices.
SwapProfiles ==
    { [totalStakeAmountPSP |-> 500000 * PspUnit, gasUsedChainCurrency |-> 28500000,
       pspChainCurrency |-> 1, pspUsd |-> 1],
      [totalStakeAmountPSP |-> 500000 * PspUnit, gasUsedChainCurrency |-> 600000,
       pspChainCurrency |-> 1, pspUsd |-> 1] }

\* --------------------------------------------------------------- optionals
Undefined == << >>
Some(v) == << v >>
IsSet(o) == o # << >>
OrElse(o, d) == IF o # << >> THEN o[1] ELSE d
Min(a, b) == IF a < b THEN a ELSE b

\* ------------------------------------------------------------------- state
VARIABLES
    db,            \* GasRefundTransaction rows, by hash
    pc,            \* where validateTransactions stands
    pageSize,
    startEpochForTxValidation,
    offset,
    transactionsSlice,
    idx,           \* position of the for loop in transactionsSlice
    prevEpoch,
    updatedTransactions,
    guardian,      \* GRPBudgetGuardian.state
    err,           \* the assertion that ended the run, "" if none
    classified,    \* history: the rows this run classified, in order
    stable,        \* history: the last run returned normally, no row added since
    stableAtStart, \* history: stable, when the current run started
    allRunsOk,     \* history: no run has failed so far
    call           \* a call of another function of the program: its name (op),
                   \* where it stands (at), its arguments, locals and result

validationVars ==
    << db, pc, pageSize, startEpochForTxValidation, offset, transactionsSlice,
       idx, prevEpoch, updatedTransactions, guardian, err, classified, stable,
       stableAtStart, allRunsOk >>

\* The state of the other parts of the program, which a run of
\* validateTransactions and the ingestion leave alone.
otherVars == << call >>

vars == << validationVars, otherVars >>

\* ---------------------------------------------------------------- guardian
ZeroByAddress == [a \in Addresses |-> 0]

EmptyGuardian ==
    [totalPSPRefundedForYear |-> 0,
     totalYearlyRefundedUSD |-> ZeroByAddress,
     totalRefundedUSDForEpoch |-> ZeroByAddress]

RECURSIVE SumOver(_, _, _)
SumOver(rows, S, field) ==
    IF S = {} THEN 0
    ELSE LET h == CHOOSE x \in S : TRUE
         IN rows[h][field] + SumOver(rows, S \ {h}, field)

ValidatedBefore(rows, toEpoch) ==
    { h \in DOMAIN rows : rows[h].status = VALIDATED /\ rows[h].epoch < toEpoch }

\* loadStateFromDB(toEpoch): the sums over the validated rows of the epochs
\* before toEpoch; the epoch totals start empty.
loadStateFromDB(rows, toEpoch) ==
    [totalPSPRefundedForYear |->
        SumOver(rows, ValidatedBefore(rows, toEpoch), "refundedAmountPSP"),
     totalYearlyRefundedUSD |->
        [a \in Addresses |->
            SumOver(rows, { h \in ValidatedBefore(rows, toEpoch) : rows[h].address = a },
                    "refundedAmountUSD")],
     totalRefundedUSDForEpoch |-> ZeroByAddress]

\* A global budget that counts as spent only once it is exceeded.
isMaxYearlyPSPGlobalBudgetSpent_Exceeded(g) ==
    g.totalPSPRefundedForYear > MAX_PSP_GLOBAL_BUDGET_YEARLY

isMaxYearlyPSPGlobalBudgetSpent(g) ==
    g.totalPSPRefundedForYear >= MAX_PSP_GLOBAL_BUDGET_YEARLY

hasSpentYearlyUSDBudget(g, account) ==
    g.totalYearlyRefundedUSD[account] >= MAX_USD_ADDRESS_BUDGET_YEARLY

hasSpentUSDBudgetForEpoch(g, account) ==
    g.totalRefundedUSDForEpoch[account] >= MAX_USD_ADDRESS_BUDGET_EPOCH

cleanEpochBudgetState(g) ==
    [g EXCEPT !.totalRefundedUSDForEpoch = ZeroByAddress]

cleanYearlyBudgetState(g) ==
    [g EXCEPT !.totalPSPRefundedForYear = 0, !.totalYearlyRefundedUSD = ZeroByAddress]

increaseRefundedUSDForEpoch(g, account, usdAmount) ==
    [g EXCEPT !.totalRefundedUSDForEpoch[account] = @ + usdAmount]

increaseYearlyRefundedUSD(g, account, usdAmount) ==
    [g EXCEPT !.totalYearlyRefundedUSD[account] = @ + usdAmount]

\* A counter that takes the amount off.
increaseTotalRefundedPSP_Subtracts(g, amount) ==
    [g EXCEPT !.totalPSPRefundedForYear = @ - amount]

increaseTotalRefundedPSP(g, amount) ==
    [g EXCEPT !.totalPSPRefundedForYear = @ + amount]

\* ------------------------------------------------------------ tier resolver
scale(num) == num * PspUnit

\* Levels that start at 5,000 PSP.
gasRefundLevels_FromLevel2 ==
    << [minStakedAmount |-> scale(500000), refundPercent |-> 4],
       [minStakedAmount |-> scale(50000), refundPercent |-> 3],
       [minStakedAmount |-> scale(5000), refundPercent |-> 2] >>

\* gasRefundLevels, reversed for the descending lookup; percent in quarters.
gasRefundLevels ==
    << [minStakedAmount |-> scale(500000), refundPercent |-> 4],
       [minStakedAmount |-> scale(50000), refundPercent |-> 3],
       [minStakedAmount |-> scale(5000), refundPercent |-> 2],
       [minStakedAmount |-> scale(500), refundPercent |-> 1] >>

\* A lookup over the levels in ascending order (the list not reversed).
getRefundPercent_Ascending(stakedAmount) ==
    LET met == { i \in 1..Len(gasRefundLevels) :
                    stakedAmount >= gasRefundLevels[i].minStakedAmount }
    IN IF met = {} THEN Undefined
       ELSE Some(gasRefundLevels[CHOOSE i \in met : \A j \in met : i >= j].refundPercent)

\* The first level whose minimum is met, Undefined if none.
getRefundPercent(stakedAmount) ==
    LET met == { i \in 1..Len(gasRefundLevels) :
                    stakedAmount >= gasRefundLevels[i].minStakedAmount }
    IN IF met = {} THEN Undefined
       ELSE Some(gasRefundLevels[CHOOSE i \in met : \A j \in met : i <= j].refundPercent)

\* ---------------------------------------------------------- refund amounts
\* BigNumber.decimalPlaces(0) of a number of quarter base units (ROUND_HALF_UP,
\* the library's rounding mode): a number of base units.
decimalPlaces0(quarters) == RoundHalfUp(quarters, PercentDenominator)

\* validateTransactions, lines 114-127: the amounts of a row, recomputed.
\* refundedAmountUSD is not rounded, refundedAmountPSP is.
RecomputedAmounts(tx, refundPercentage) ==
    LET raw == (tx.gasUsedChainCurrency \div tx.pspChainCurrency) * refundPercentage
        _refundedAmountPSP ==
            IF tx.epoch = GasRefundPrecisionGlitchRefundedAmountsEpoch
            THEN decimalPlaces0(raw) * PercentDenominator
            ELSE raw
    IN [refundedAmountUSD |-> (_refundedAmountPSP * tx.pspUsd) \div PspUnit,
        refundedAmountPSP |-> decimalPlaces0(_refundedAmountPSP)]

\* cappedRefundedAmountUSD.dividedBy(pspUsd).multipliedBy(10 ** 18).decimalPlaces(0)
UsdToPsp(usdAmount, pspUsd) ==
    RoundHalfUp(usdAmount * PspUnit, pspUsd * PercentDenominator)

NoCap == [cappedRefundedAmountUSD |-> Undefined, cappedRefundedAmountPSP |-> Undefined,
          failed |-> FALSE]

\* A yearly cap that forgets what the address was already refunded.
capYearly_WholeBudget(g, address, refundedAmountUSD, pspUsd) ==
    IF g.totalYearlyRefundedUSD[address] + refundedAmountUSD
          > MAX_USD_ADDRESS_BUDGET_YEARLY
    THEN [cappedRefundedAmountUSD |-> Some(MAX_USD_ADDRESS_BUDGET_YEARLY),
          cappedRefundedAmountPSP |->
              Some(UsdToPsp(MAX_USD_ADDRESS_BUDGET_YEARLY, pspUsd)),
          failed |-> FALSE]
    ELSE NoCap

\* A yearly cap that takes the amount of the row off what is left.
capYearly_LessTheRow(g, address, refundedAmountUSD, pspUsd) ==
    IF g.totalYearlyRefundedUSD[address] + refundedAmountUSD
          > MAX_USD_ADDRESS_BUDGET_YEARLY
    THEN LET cappedRefundedAmountUSD ==
                 MAX_USD_ADDRESS_BUDGET_YEARLY - g.totalYearlyRefundedUSD[address]
                     - refundedAmountUSD
         IN [cappedRefundedAmountUSD |-> Some(cappedRefundedAmountUSD),
             cappedRefundedAmountPSP |-> Some(UsdToPsp(cappedRefundedAmountUSD, pspUsd)),
             failed |-> ~(cappedRefundedAmountUSD >= 0)]
    ELSE NoCap

capRefundedAmountsBasedOnYearlyDollarBudget(g, address, refundedAmountUSD, pspUsd) ==
    IF g.totalYearlyRefundedUSD[address] + refundedAmountUSD > MAX_USD_ADDRESS_BUDGET_YEARLY
    THEN LET cappedRefundedAmountUSD ==
                 MAX_USD_ADDRESS_BUDGET_YEARLY - g.totalYearlyRefundedUSD[address]
         IN [cappedRefundedAmountUSD |-> Some(cappedRefundedAmountUSD),
             cappedRefundedAmountPSP |-> Some(UsdToPsp(cappedRefundedAmountUSD, pspUsd)),
             failed |-> ~(cappedRefundedAmountUSD >= 0)]
    ELSE NoCap

\* An epoch path that knows the yearly budget only.
capEpoch_YearlyOnly(g, address, refundedAmountUSD, pspUsd) ==
    capRefundedAmountsBasedOnYearlyDollarBudget(g, address, refundedAmountUSD, pspUsd)

capRefundedAmountsBasedOnEpochDollarBudget(g, address, refundedAmountUSD, pspUsd) ==
    IF g.totalYearlyRefundedUSD[address] + refundedAmountUSD > MAX_USD_ADDRESS_BUDGET_YEARLY
    THEN capRefundedAmountsBasedOnYearlyDollarBudget(g, address, refundedAmountUSD, pspUsd)
    ELSE IF g.totalRefundedUSDForEpoch[address] + refundedAmountUSD
                > MAX_USD_ADDRESS_BUDGET_EPOCH
    THEN LET cappedRefundedAmountUSD ==
                 MAX_USD_ADDRESS_BUDGET_EPOCH - g.totalRefundedUSDForEpoch[address]
         IN [cappedRefundedAmountUSD |-> Some(cappedRefundedAmountUSD),
             cappedRefundedAmountPSP |-> Some(UsdToPsp(cappedRefundedAmountUSD, pspUsd)),
             failed |-> ~(cappedRefundedAmountUSD >= 0)]
    ELSE NoCap

\* A global cap that lets every amount through.
capPSP_Uncapped(g, cappedRefundedAmountPSP, refundedAmountPSP) ==
    [value |-> cappedRefundedAmountPSP, failed |-> FALSE]

\* [value, failed]: the PSP amount capped by what is left of the global budget.
capRefundedPSPAmountBasedOnPSPBudget(g, cappedRefundedAmountPSP, refundedAmountPSP) ==
    IF g.totalPSPRefundedForYear + OrElse(cappedRefundedAmountPSP, refundedAmountPSP)
            > MAX_PSP_GLOBAL_BUDGET_YEARLY
    THEN LET cappedToMax == MAX_PSP_GLOBAL_BUDGET_YEARLY - g.totalPSPRefundedForYear
             capped == IF IsSet(cappedRefundedAmountPSP)
                       THEN Min(cappedRefundedAmountPSP[1], cappedToMax)
                       ELSE cappedToMax
         IN [value |-> Some(capped), failed |-> ~(capped < refundedAmountPSP)]
    ELSE [value |-> cappedRefundedAmountPSP, failed |-> FALSE]

\* xnor of the truthiness of two optional BigNumbers (an object is truthy).
xnor(a, b) == IsSet(a) <=> IsSet(b)

\* An epoch change that cleans the yearly state only.
GuardianAtRow_YearlyOnly(g, prev, tx) ==
    IF prev # tx.epoch /\ (tx.epoch - GasRefundGenesisEpoch) % TOTAL_EPOCHS_IN_YEAR = 0
    THEN cleanYearlyBudgetState(g)
    ELSE g

\* lines 98-108: the guardian at a row, after the cleaning an epoch change asks for.
GuardianAtRow(g, prev, tx) ==
    IF prev # tx.epoch
    THEN LET g1 == cleanEpochBudgetState(g)
         IN IF (tx.epoch - GasRefundGenesisEpoch) % TOTAL_EPOCHS_IN_YEAR = 0
            THEN cleanYearlyBudgetState(g1)
            ELSE g1
    ELSE g

\* lines 129-134
IsBudgetSpent(g, tx) ==
    \/ isMaxYearlyPSPGlobalBudgetSpent(g)
    \/ hasSpentYearlyUSDBudget(g, tx.address)
    \/ /\ tx.epoch >= GasRefundBudgetLimitEpochBasedStartEpoch
       /\ hasSpentUSDBudgetForEpoch(g, tx.address)

\* lines 139-150
CapByDollarBudget(g, tx, refundedAmountUSD) ==
    IF tx.epoch < GasRefundBudgetLimitEpochBasedStartEpoch
    THEN capRefundedAmountsBasedOnYearlyDollarBudget(g, tx.address, refundedAmountUSD,
                                                     tx.pspUsd)
    ELSE capRefundedAmountsBasedOnEpochDollarBudget(g, tx.address, refundedAmountUSD,
                                                    tx.pspUsd)

\* lines 157-171: the effective amounts committed to the guardian.
CommitToGuardian(g, tx, usdAmount, pspAmount) ==
    LET g1 == IF tx.epoch >= GasRefundBudgetLimitEpochBasedStartEpoch
              THEN increaseRefundedUSDForEpoch(g, tx.address, usdAmount)
              ELSE g
    IN increaseTotalRefundedPSP(increaseYearlyRefundedUSD(g1, tx.address, usdAmount),
                                pspAmount)

\* lines 178-189: the record staged for the row, if any.
StagedUpdate(tx, newStatus, cappedRefundedAmountPSP, cappedRefundedAmountUSD) ==
    IF tx.status # newStatus \/ IsSet(cappedRefundedAmountPSP)
    THEN << [tx EXCEPT
               !.refundedAmountPSP = OrElse(cappedRefundedAmountPSP, @),
               !.refundedAmountUSD = OrElse(cappedRefundedAmountUSD, @),
               !.status = newStatus] >>
    ELSE << >>

\* A classification that commits the recomputed amounts of a rejected row.
ClassifyTx_CommitsRejected(g, tx) ==
    LET refundPercentage == getRefundPercent(tx.totalStakeAmountPSP)
        none == [guardian |-> g, newStatus |-> IDLE, cappedRefundedAmountPSP |-> Undefined,
                 cappedRefundedAmountUSD |-> Undefined, staged |-> << >>,
                 usdAmount |-> 0, pspAmount |-> 0, err |-> ""]
    IN IF ~IsSet(refundPercentage)
       THEN [none EXCEPT !.err = "refundPercentage"]
       ELSE
       LET amounts == RecomputedAmounts(tx, refundPercentage[1])
       IN IF IsBudgetSpent(g, tx)
          THEN [none EXCEPT !.newStatus = REJECTED,
                            !.guardian = CommitToGuardian(g, tx, amounts.refundedAmountUSD,
                                                          amounts.refundedAmountPSP)]
          ELSE
          LET usdCap == CapByDollarBudget(g, tx, amounts.refundedAmountUSD)
              pspCap == capRefundedPSPAmountBasedOnPSPBudget(
                            g, usdCap.cappedRefundedAmountPSP, amounts.refundedAmountPSP)
              cappedUSD == usdCap.cappedRefundedAmountUSD
              cappedPSP == pspCap.value
              usdAmount == OrElse(cappedUSD, amounts.refundedAmountUSD)
              pspAmount == OrElse(cappedPSP, amounts.refundedAmountPSP)
              r == [none EXCEPT !.newStatus = VALIDATED,
                                !.cappedRefundedAmountPSP = cappedPSP,
                                !.cappedRefundedAmountUSD = cappedUSD,
                                !.usdAmount = usdAmount, !.pspAmount = pspAmount]
          IN IF usdCap.failed
             THEN [r EXCEPT !.err = "negative cap"]
             ELSE IF pspCap.failed
             THEN [r EXCEPT !.err = "capped amount not lower"]
             ELSE IF ~xnor(cappedPSP, cappedUSD)
             THEN [r EXCEPT !.guardian = CommitToGuardian(g, tx, usdAmount, pspAmount),
                            !.err = "xnor"]
             ELSE [r EXCEPT !.guardian = CommitToGuardian(g, tx, usdAmount, pspAmount),
                            !.staged = StagedUpdate(tx, VALIDATED, cappedPSP, cappedUSD)]

\* lines 110-190, for one row and the guardian g: the new guardian, the
\* classification, the caps, the staged record, and the assertion that failed
\* ("" when none did).
ClassifyTx(g, tx) ==
    LET refundPercentage == getRefundPercent(tx.totalStakeAmountPSP)
        none == [guardian |-> g, newStatus |-> IDLE, cappedRefundedAmountPSP |-> Undefined,
                 cappedRefundedAmountUSD |-> Undefined, staged |-> << >>,
                 usdAmount |-> 0, pspAmount |-> 0, err |-> ""]
    IN IF ~IsSet(refundPercentage)
       THEN [none EXCEPT !.err = "refundPercentage"]
       ELSE
       LET amounts == RecomputedAmounts(tx, refundPercentage[1])
       IN IF IsBudgetSpent(g, tx)
          THEN [none EXCEPT !.newStatus = REJECTED]
          ELSE
          LET usdCap == CapByDollarBudget(g, tx, amounts.refundedAmountUSD)
              pspCap == capRefundedPSPAmountBasedOnPSPBudget(
                            g, usdCap.cappedRefundedAmountPSP, amounts.refundedAmountPSP)
              cappedUSD == usdCap.cappedRefundedAmountUSD
              cappedPSP == pspCap.value
              usdAmount == OrElse(cappedUSD, amounts.refundedAmountUSD)
              pspAmount == OrElse(cappedPSP, amounts.refundedAmountPSP)
              r == [none EXCEPT !.newStatus = VALIDATED,
                                !.cappedRefundedAmountPSP = cappedPSP,
                                !.cappedRefundedAmountUSD = cappedUSD,
                                !.usdAmount = usdAmount, !.pspAmount = pspAmount]
          IN IF usdCap.failed
             THEN [r EXCEPT !.err = "negative cap"]
             ELSE IF pspCap.failed
             THEN [r EXCEPT !.err = "capped amount not lower"]
             ELSE IF ~xnor(cappedPSP, cappedUSD)
             THEN [r EXCEPT !.guardian = CommitToGuardian(g, tx, usdAmount, pspAmount),
                            !.err = "xnor"]
             ELSE [r EXCEPT !.guardian = CommitToGuardian(g, tx, usdAmount, pspAmount),
                            !.staged = StagedUpdate(tx, VALIDATED, cappedPSP, cappedUSD)]

\* -------------------------------------------------------------- persistence
\* fetchLastEpochRefunded: the highest epoch holding a validated or rejected
\* row, 0 (falsy) when there is none.
fetchLastEpochRefunded(rows) ==
    LET done == { rows[h].epoch : h \in { x \in DOMAIN rows :
                                             rows[x].status \in {VALIDATED, REJECTED} } }
    IN IF done = {} THEN 0 ELSE CHOOSE e \in done : \A f \in done : f <= e

\* lines 41-43
StartEpochFor(lastEpochRefunded) ==
    IF lastEpochRefunded = 0 THEN GasRefundGenesisEpoch ELSE lastEpochRefunded + 1

\* An order by hash alone.
OrderedBefore_HashOnly(rows, h1, h2) == h1 < h2

\* order: ['timestamp', 'hash']
OrderedBefore(rows, h1, h2) ==
    \/ rows[h1].timestamp < rows[h2].timestamp
    \/ rows[h1].timestamp = rows[h2].timestamp /\ h1 < h2

RECURSIVE SortedHashes(_, _)
SortedHashes(rows, S) ==
    IF S = {} THEN << >>
    ELSE LET first == CHOOSE h \in S : \A k \in S \ {h} : OrderedBefore(rows, h, k)
         IN << first >> \o SortedHashes(rows, S \ {first})

\* A query without the where clause: rows of every epoch.
findAll_EveryEpoch(rows, startEpoch, limit, skip) ==
    LET sorted == SortedHashes(rows, DOMAIN rows)
        page == SubSeq(sorted, skip + 1, Min(skip + limit, Len(sorted)))
    IN [i \in 1..Len(page) |-> rows[page[i]]]

\* lines 53-77: findAll where epoch >= startEpoch, ordered, limit, offset; the
\* rows are copies (raw: true).
findAll(rows, startEpoch, limit, skip) ==
    LET sorted == SortedHashes(rows, { h \in DOMAIN rows : rows[h].epoch >= startEpoch })
        page == SubSeq(sorted, skip + 1, Min(skip + limit, Len(sorted)))
    IN [i \in 1..Len(page) |-> rows[page[i]]]

\* updateTransactionsStatusRefundedAmounts: every staged record replaces the
\* status and the amounts of its row.
updateTransactionsStatusRefundedAmounts(rows, updated) ==
    [h \in DOMAIN rows |->
        IF \E i \in 1..Len(updated) : updated[i].hash = h
        THEN LET u == updated[CHOOSE i \in 1..Len(updated) : updated[i].hash = h]
             IN [rows[h] EXCEPT !.status = u.status,
                                !.refundedAmountPSP = u.refundedAmountPSP,
                                !.refundedAmountUSD = u.refundedAmountUSD]
        ELSE rows[h]]

\* lines 199-201
CountIdle(rows) == Cardinality({ h \in DOMAIN rows : rows[h].status = IDLE })

\* ------------------------------------------------- validateTransactions steps
\* The state of one run as a record, so that a whole run can also be computed
\* (RunToEnd below) with the very steps the actions take.

\* lines 37-49
StartRun(rows, size) ==
    LET startEpoch == StartEpochFor(fetchLastEpochRefunded(rows))
    IN [db |-> rows, pc |-> "fetch", pageSize |-> size,
        startEpochForTxValidation |-> startEpoch, offset |-> 0,
        transactionsSlice |-> << >>, idx |-> 0, prevEpoch |-> 0,
        updatedTransactions |-> << >>,
        guardian |-> loadStateFromDB(rows, startEpoch),
        err |-> "", classified |-> << >>]

\* lines 51-85: the next page; an empty page ends the run.
FetchStep(s) ==
    LET slice == findAll(s.db, s.startEpochForTxValidation, s.pageSize, s.offset)
    IN IF Len(slice) = 0
       THEN [s EXCEPT !.pc = "done", !.transactionsSlice = slice, !.idx = 0]
       ELSE [s EXCEPT !.pc = "row", !.transactionsSlice = slice,
                      !.offset = @ + s.pageSize, !.updatedTransactions = << >>,
                      !.prevEpoch = slice[1].epoch, !.idx = 1]

\* line 196: the loop leaves after a row of a page shorter than the page size.
LeavesLoopAfter(s) ==
    Len(s.transactionsSlice) < s.pageSize \/ s.idx = Len(s.transactionsSlice)

\* lines 87-197: the body of the for loop, for the row at idx.
LoopStep(s) ==
    LET tx == s.transactionsSlice[s.idx]
        g == GuardianAtRow(s.guardian, s.prevEpoch, tx)
        r == ClassifyTx(g, tx)
        updated == s.updatedTransactions \o r.staged
        s1 == [s EXCEPT !.guardian = r.guardian, !.prevEpoch = tx.epoch,
                        !.classified = Append(@, [hash |-> tx.hash,
                                                  status |-> r.newStatus,
                                                  usdAmount |-> r.usdAmount,
                                                  pspAmount |-> r.pspAmount])]
    IN IF r.err # ""
       THEN [s1 EXCEPT !.pc = "failed", !.err = r.err]
       ELSE [s1 EXCEPT
               !.updatedTransactions = updated,
               !.db = IF Len(updated) > 0
                      THEN updateTransactionsStatusRefundedAmounts(s.db, updated)
                      ELSE s.db,
               !.pc = IF LeavesLoopAfter(s) THEN "count" ELSE "row",
               !.idx = IF LeavesLoopAfter(s) THEN s.idx ELSE s.idx + 1]

\* lines 199-206
CountStep(s) ==
    IF CountIdle(s.db) = 0
    THEN [s EXCEPT !.pc = "fetch"]
    ELSE [s EXCEPT !.pc = "failed", !.err = "idle transactions"]

PassStep(s) ==
    CASE s.pc = "fetch" -> FetchStep(s)
      [] s.pc = "row" -> LoopStep(s)
      [] s.pc = "count" -> CountStep(s)
      [] OTHER -> s

RECURSIVE RunToEnd(_)
RunToEnd(s) == IF s.pc \in {"done", "failed"} THEN s ELSE RunToEnd(PassStep(s))

\* validateTransactions run from start to end on the rows, with a page size.
RunPass(rows, size) == RunToEnd(StartRun(rows, size))

\* ------------------------------------------------------------------ actions
Cur ==
    [db |-> db, pc |-> pc, pageSize |-> pageSize,
     startEpochForTxValidation |-> startEpochForTxValidation, offset |-> offset,
     transactionsSlice |-> transactionsSlice, idx |-> idx, prevEpoch |-> prevEpoch,
     updatedTransactions |-> updatedTransactions, guardian |-> guardian,
     err |-> err, classified |-> classified]

Becomes(s) ==
    /\ db' = s.db
    /\ pc' = s.pc
    /\ pageSize' = s.pageSize
    /\ startEpochForTxValidation' = s.startEpochForTxValidation
    /\ offset' = s.offset
    /\ transactionsSlice' = s.transactionsSlice
    /\ idx' = s.idx
    /\ prevEpoch' = s.prevEpoch
    /\ updatedTransactions' = s.updatedTransactions
    /\ guardian' = s.guardian
    /\ err' = s.err
    /\ classified' = s.classified

\* The row ingestion stages for a swap: status IDLE, the amounts of the refund
\* calculator, which are those the re-validation recomputes, not capped.
PendingRow(hash, ts, address, profile) ==
    LET base == [epoch |-> EpochOfTimestamp(ts), hash |-> hash, address |-> address,
                 timestamp |-> ts, status |-> IDLE,
                 totalStakeAmountPSP |-> profile.totalStakeAmountPSP,
                 gasUsedChainCurrency |-> profile.gasUsedChainCurrency,
                 pspChainCurrency |-> profile.pspChainCurrency,
                 pspUsd |-> profile.pspUsd,
                 refundedAmountPSP |-> 0, refundedAmountUSD |-> 0]
        amounts == RecomputedAmounts(base, getRefundPercent(profile.totalStakeAmountPSP)[1])
    IN [base EXCEPT !.refundedAmountPSP = amounts.refundedAmountPSP,
                    !.refundedAmountUSD = amounts.refundedAmountUSD]

ValidationAtRest ==
    /\ db = << >>
    /\ pc = "idle"
    /\ pageSize = 1
    /\ startEpochForTxValidation = GasRefundGenesisEpoch
    /\ offset = 0
    /\ transactionsSlice = << >>
    /\ idx = 0
    /\ prevEpoch = 0
    /\ updatedTransactions = << >>
    /\ guardian = EmptyGuardian
    /\ err = ""
    /\ classified = << >>
    /\ stable = FALSE
    /\ stableAtStart = FALSE
    /\ allRunsOk = TRUE

\* No other function is being called.
NoCall == call = [op |-> "none", at |-> "none"]

Init ==
    /\ ValidationAtRest
    /\ NoCall

\* writePendingEpochData, for one swap of a slice.
Ingest ==
    /\ pc = "idle"
    /\ \E hash \in Hashes \ DOMAIN db, ts \in Timestamps, address \in Addresses,
          profile \in SwapProfiles :
          db' = [h \in DOMAIN db \cup {hash} |->
                    IF h = hash THEN PendingRow(hash, ts, address, profile) ELSE db[h]]
    /\ stable' = FALSE
    /\ UNCHANGED << pc, pageSize, startEpochForTxValidation, offset, transactionsSlice,
                    idx, prevEpoch, updatedTransactions, guardian, err, classified,
                    stableAtStart, allRunsOk >>
    /\ UNCHANGED otherVars

StartPass ==
    /\ pc = "idle"
    /\ \E size \in PageSizes : Becomes(StartRun(db, size))
    /\ stableAtStart' = stable
    /\ UNCHANGED << stable, allRunsOk >>
    /\ UNCHANGED otherVars

FetchPage ==
    /\ pc = "fetch"
    /\ Becomes(FetchStep(Cur))
    /\ stable' = IF pc' = "done" THEN TRUE ELSE stable
    /\ UNCHANGED << stableAtStart, allRunsOk >>
    /\ UNCHANGED otherVars

ProcessRow ==
    /\ pc = "row"
    /\ Becomes(LoopStep(Cur))
    /\ stable' = IF pc' = "failed" THEN FALSE ELSE stable
    /\ allRunsOk' = IF pc' = "failed" THEN FALSE ELSE allRunsOk
    /\ UNCHANGED stableAtStart
    /\ UNCHANGED otherVars

CheckIdle ==
    /\ pc = "count"
    /\ Becomes(CountStep(Cur))
    /\ stable' = IF pc' = "failed" THEN FALSE ELSE stable
    /\ allRunsOk' = IF pc' = "failed" THEN FALSE ELSE allRunsOk
    /\ UNCHANGED stableAtStart
    /\ UNCHANGED otherVars

\* The run is over: its locals are gone, the rows stay.
EndRun ==
    /\ pc \in {"done", "failed"}
    /\ pc' = "idle"
    /\ pageSize' = 1
    /\ startEpochForTxValidation' = GasRefundGenesisEpoch
    /\ offset' = 0
    /\ transactionsSlice' = << >>
    /\ idx' = 0
    /\ prevEpoch' = 0
    /\ updatedTransactions' = << >>
    /\ guardian' = EmptyGuardian
    /\ err' = ""
    /\ classified' = << >>
    /\ stableAtStart' = FALSE
    /\ UNCHANGED << db, stable, allRunsOk >>
    /\ UNCHANGED otherVars

Next == Ingest \/ StartPass \/ FetchPage \/ ProcessRow \/ CheckIdle \/ EndRun

Spec == Init /\ [][Next]_vars

\* ------------------------------------------------------------- properties
Results(rows) ==
    [h \in DOMAIN rows |->
        << rows[h].status, rows[h].refundedAmountPSP, rows[h].refundedAmountUSD >>]

\* The rows as ingestion staged them, before any run touched them.
AsIngested(rows) ==
    [h \in DOMAIN rows |->
        PendingRow(h, rows[h].timestamp, rows[h].address,
                   [totalStakeAmountPSP |-> rows[h].totalStakeAmountPSP,
                    gasUsedChainCurrency |-> rows[h].gasUsedChainCurrency,
                    pspChainCurrency |-> rows[h].pspChainCurrency,
                    pspUsd |-> rows[h].pspUsd])]

YearOf(epoch) == (epoch - GasRefundGenesisEpoch) \div TOTAL_EPOCHS_IN_YEAR

ModelledYears == { YearOf(EpochSchedule[i]) : i \in 1..Len(EpochSchedule) }

ModelledEpochs == { EpochSchedule[i] : i \in 1..Len(EpochSchedule) }

ValidatedOfYear(rows, y) ==
    { h \in DOMAIN rows : rows[h].status = VALIDATED /\ YearOf(rows[h].epoch) = y }

ValidatedOfEpoch(rows, e) ==
    { h \in DOMAIN rows : rows[h].status = VALIDATED /\ rows[h].epoch = e }

OfAddress(rows, S, a) == { h \in S : rows[h].address = a }

\* C1: whenever validateTransactions returns normally, no persisted row has
\* status IDLE.
C1_NoIdleAfterNormalReturn ==
    pc = "done" => \A h \in DOMAIN db : db[h].status # IDLE

\* C2: a run started right after a run that returned normally, with no row
\* added in between, changes no status and no amount: every step taken while
\* the rows are as a successful run left them keeps the results of every row.
C2_SecondRunChangesNothing ==
    [][(stable /\ DOMAIN db' = DOMAIN db) => Results(db') = Results(db)]_vars

\* C2 witness: a run that started right after a successful one has returned,
\* over rows of which one was validated.
C2_Witness ==
    /\ pc = "done"
    /\ stableAtStart
    /\ \E h \in DOMAIN db : db[h].status = VALIDATED

\* C3: for the same rows, the results of a run are the same for every page size.
C3_PageSizeIndependent ==
    pc = "idle" =>
        \A p, q \in PageSizes : Results(RunPass(db, p).db) = Results(RunPass(db, q).db)

\* C4: the results after a run depend only on the set of rows, not on the
\* round in which a row was ingested: when every run so far returned normally,
\* the results are those of a run (that returns normally) over the same rows
\* had all of them been ingested before the first run.
C4_IngestionOrderIndependent ==
    (pc = "done" /\ allRunsOk /\ RunPass(AsIngested(db), pageSize).pc = "done") =>
        Results(db) = Results(RunPass(AsIngested(db), pageSize).db)

\* C5: in every year of 26 epochs, the persisted refundedAmountPSP of the
\* validated rows sum to at most MAX_PSP_GLOBAL_BUDGET_YEARLY.
C5_GlobalYearlyPSPBudget ==
    \A y \in ModelledYears :
        SumOver(db, ValidatedOfYear(db, y), "refundedAmountPSP")
            <= MAX_PSP_GLOBAL_BUDGET_YEARLY

\* C5 witness: a run has returned, a year's validated rows use the whole global
\* budget, and one of them was capped to what was left of it, below what its
\* dollar amount is worth.
C5_Witness ==
    /\ pc = "done"
    /\ \E y \in ModelledYears :
          /\ SumOver(db, ValidatedOfYear(db, y), "refundedAmountPSP")
                = MAX_PSP_GLOBAL_BUDGET_YEARLY
          /\ \E h \in ValidatedOfYear(db, y) :
                /\ db[h].refundedAmountPSP < AsIngested(db)[h].refundedAmountPSP
                /\ db[h].refundedAmountPSP
                      < UsdToPsp(db[h].refundedAmountUSD, db[h].pspUsd)

\* C6: for every address and year, the persisted refundedAmountUSD of the
\* validated rows sum to at most MAX_USD_ADDRESS_BUDGET_YEARLY.
C6_AddressYearlyUSDBudget ==
    \A y \in ModelledYears, a \in Addresses :
        SumOver(db, OfAddress(db, ValidatedOfYear(db, y), a), "refundedAmountUSD")
            <= MAX_USD_ADDRESS_BUDGET_YEARLY

\* C6 witness: after a run, an address has used its whole yearly budget, its
\* last row capped to what was left.
C6_Witness ==
    /\ pc \in {"done", "failed"}
    /\ \E y \in ModelledYears, a \in Addresses :
          /\ SumOver(db, OfAddress(db, ValidatedOfYear(db, y), a), "refundedAmountUSD")
                = MAX_USD_ADDRESS_BUDGET_YEARLY
          /\ \E h \in OfAddress(db, ValidatedOfYear(db, y), a) :
                db[h].refundedAmountUSD < AsIngested(db)[h].refundedAmountUSD

\* C7: for every address and every epoch from the epoch based budget on, the
\* persisted refundedAmountUSD of the validated rows sum to at most
\* MAX_USD_ADDRESS_BUDGET_EPOCH.
C7_AddressEpochUSDBudget ==
    \A e \in ModelledEpochs, a \in Addresses :
        e >= GasRefundBudgetLimitEpochBasedStartEpoch =>
            SumOver(db, OfAddress(db, ValidatedOfEpoch(db, e), a), "refundedAmountUSD")
                <= MAX_USD_ADDRESS_BUDGET_EPOCH

\* C8: a run classifies rows in ascending (timestamp, hash) order, across
\* pages: every row classified comes after the rows classified before it, and
\* the row about to be classified comes after all of them, so that the
\* guardian holds the effects of preceding rows only.
C8_CanonicalOrder ==
    LET before(h, k) ==
            \/ db[h].timestamp < db[k].timestamp
            \/ db[h].timestamp = db[k].timestamp /\ h < k
    IN /\ \A i, j \in 1..Len(classified) :
             i < j => before(classified[i].hash, classified[j].hash)
       /\ pc = "row" =>
             \A i \in 1..Len(classified) :
                 before(classified[i].hash, transactionsSlice[idx].hash)

\* C8 witness: a run has classified three rows, two of them of the same
\* timestamp, and the first in hash order is not the first in (timestamp, hash)
\* order.
C8_Witness ==
    /\ Len(classified) = 3
    /\ classified[1].hash # 1
    /\ \E i, j \in 1..Len(classified) :
          /\ i < j
          /\ db[classified[i].hash].timestamp = db[classified[j].hash].timestamp

\* C9: in a run every row of a page is classified, also on a page shorter
\* than the page size: when the loop over a page is left, every row of the
\* page has been classified.
C9_EveryRowOfPageClassified ==
    pc = "count" =>
        \A i \in 1..Len(transactionsSlice) :
            \E k \in 1..Len(classified) :
                classified[k].hash = transactionsSlice[i].hash

\* The row at idx meets the global budget alone: not rejected, no USD cap, and
\* its PSP amount does not fit in what is left of the global budget.
GlobalCapOnlyCase ==
    /\ pc = "row"
    /\ LET tx == transactionsSlice[idx]
           g == GuardianAtRow(guardian, prevEpoch, tx)
           amounts == RecomputedAmounts(tx, getRefundPercent(tx.totalStakeAmountPSP)[1])
       IN /\ ~IsBudgetSpent(g, tx)
          /\ CapByDollarBudget(g, tx, amounts.refundedAmountUSD) = NoCap
          /\ g.totalPSPRefundedForYear + amounts.refundedAmountPSP
                > MAX_PSP_GLOBAL_BUDGET_YEARLY

\* C10: a row that meets the global budget alone is recorded as VALIDATED with
\* refundedAmountPSP = what was left of the budget, its USD amount as it was,
\* the run goes on without error and the PSP total equals the budget.
C10_GlobalCapOnly ==
    [][GlobalCapOnlyCase =>
           LET tx == transactionsSlice[idx]
               g == GuardianAtRow(guardian, prevEpoch, tx)
           IN /\ pc' # "failed"
              /\ db'[tx.hash].status = VALIDATED
              /\ db'[tx.hash].refundedAmountPSP
                    = MAX_PSP_GLOBAL_BUDGET_YEARLY - g.totalPSPRefundedForYear
              /\ db'[tx.hash].refundedAmountUSD = tx.refundedAmountUSD
              /\ guardian'.totalPSPRefundedForYear = MAX_PSP_GLOBAL_BUDGET_YEARLY]_vars

\* The row at idx is of an epoch with the epoch based budget, is not rejected,
\* fits in the yearly budget of its address and not in its epoch budget.
EpochCapCase ==
    /\ pc = "row"
    /\ LET tx == transactionsSlice[idx]
           g == GuardianAtRow(guardian, prevEpoch, tx)
           amounts == RecomputedAmounts(tx, getRefundPercent(tx.totalStakeAmountPSP)[1])
       IN /\ tx.epoch >= GasRefundBudgetLimitEpochBasedStartEpoch
          /\ ~IsBudgetSpent(g, tx)
          /\ g.totalYearlyRefundedUSD[tx.address] + amounts.refundedAmountUSD
                <= MAX_USD_ADDRESS_BUDGET_YEARLY
          /\ g.totalRefundedUSDForEpoch[tx.address] + amounts.refundedAmountUSD
                > MAX_USD_ADDRESS_BUDGET_EPOCH

\* C11 (as stated): in the epoch cap case the row is VALIDATED with
\* refundedAmountUSD = MAX_USD_ADDRESS_BUDGET_EPOCH - epoch(addr), with
\* refundedAmountPSP derived from that capped USD amount, and the epoch total
\* of the address is MAX_USD_ADDRESS_BUDGET_EPOCH afterwards.
C11_EpochCapDerivedPSP ==
    [][EpochCapCase =>
           LET tx == transactionsSlice[idx]
               g == GuardianAtRow(guardian, prevEpoch, tx)
               capped == MAX_USD_ADDRESS_BUDGET_EPOCH
                            - g.totalRefundedUSDForEpoch[tx.address]
           IN /\ db'[tx.hash].status = VALIDATED
              /\ db'[tx.hash].refundedAmountUSD = capped
              /\ db'[tx.hash].refundedAmountPSP = UsdToPsp(capped, tx.pspUsd)
              /\ guardian'.totalRefundedUSDForEpoch[tx.address]
                    = MAX_USD_ADDRESS_BUDGET_EPOCH]_vars

\* C11 (amended): as above, but refundedAmountPSP is the amount derived from
\* the capped USD amount only when it fits in what is left of the global
\* budget, and what is left of the global budget otherwise.
C11_EpochCap ==
    [][EpochCapCase =>
           LET tx == transactionsSlice[idx]
               g == GuardianAtRow(guardian, prevEpoch, tx)
               capped == MAX_USD_ADDRESS_BUDGET_EPOCH
                            - g.totalRefundedUSDForEpoch[tx.address]
               derived == UsdToPsp(capped, tx.pspUsd)
           IN /\ db'[tx.hash].status = VALIDATED
              /\ db'[tx.hash].refundedAmountUSD = capped
              /\ db'[tx.hash].refundedAmountPSP =
                    IF g.totalPSPRefundedForYear + derived > MAX_PSP_GLOBAL_BUDGET_YEARLY
                    THEN MAX_PSP_GLOBAL_BUDGET_YEARLY - g.totalPSPRefundedForYear
                    ELSE derived
              /\ guardian'.totalRefundedUSDForEpoch[tx.address]
                    = MAX_USD_ADDRESS_BUDGET_EPOCH]_vars

\* C11 witness: the row just classified was capped to what was left of the
\* epoch budget of its address, which had been refunded in that epoch before.
C11_Witness ==
    /\ pc \in {"row", "count"}
    /\ Len(classified) > 0
    /\ LET h == classified[Len(classified)].hash
       IN /\ db[h].epoch >= GasRefundBudgetLimitEpochBasedStartEpoch
          /\ db[h].status = VALIDATED
          /\ db[h].refundedAmountUSD < AsIngested(db)[h].refundedAmountUSD
          /\ db[h].refundedAmountUSD < MAX_USD_ADDRESS_BUDGET_EPOCH
          /\ guardian.totalRefundedUSDForEpoch[db[h].address]
                = MAX_USD_ADDRESS_BUDGET_EPOCH
          /\ guardian.totalYearlyRefundedUSD[db[h].address]
                < MAX_USD_ADDRESS_BUDGET_YEARLY

\* ------------------------------------------------------- getRefundPercent
\* The staked amounts a call is made with: around every level's minimum, and
\* around 0.
Stakes ==
    LET minimums == {0} \cup { gasRefundLevels[i].minStakedAmount :
                                  i \in 1..Len(gasRefundLevels) }
    IN { x \in { m + d : m \in minimums, d \in -StakeSpread..StakeSpread } : x >= 0 }

InitTier ==
    /\ ValidationAtRest
    /\ \E stakedAmount \in Stakes :
          call = [op |-> "getRefundPercent", at |-> "called",
                  stakedAmount |-> stakedAmount]

CallGetRefundPercent ==
    /\ call.op = "getRefundPercent" /\ call.at = "called"
    /\ call' = [op |-> "getRefundPercent", at |-> "returned",
                stakedAmount |-> call.stakedAmount,
                refundPercent |-> getRefundPercent(call.stakedAmount)]
    /\ UNCHANGED validationVars

NextTier == CallGetRefundPercent

SpecTier == InitTier /\ [][NextTier]_vars

\* C12: getRefundPercent(stake) is undefined below 500 tokens, 0.25 from 500,
\* 0.5 from 5,000, 0.75 from 50,000 and 1 from 500,000 tokens (percents in
\* quarters), a minimum itself belonging to the higher level; no smaller stake
\* gets a higher percent.
C12_TierTable ==
    (call.op = "getRefundPercent" /\ call.at = "returned") =>
        LET stake == call.stakedAmount
            expected == IF stake < 500 * PspUnit THEN Undefined
                        ELSE IF stake < 5000 * PspUnit THEN Some(1)
                        ELSE IF stake < 50000 * PspUnit THEN Some(2)
                        ELSE IF stake < 500000 * PspUnit THEN Some(3)
                        ELSE Some(4)
        IN /\ call.refundPercent = expected
           /\ \A lower \in Stakes :
                 lower <= stake =>
                    OrElse(getRefundPercent(lower), 0) <= OrElse(call.refundPercent, 0)

\* C12 witness: a call with exactly the minimum of the second level returned
\* the percent of the second level.
C12_Witness ==
    /\ call.op = "getRefundPercent" /\ call.at = "returned"
    /\ call.stakedAmount = 5000 * PspUnit
    /\ call.refundPercent = Some(2)

\* ------------------------------------------------------ getSuccessfulSwaps
\* A comparison that keeps the case.
toLowerCase_KeepsCase(str) == str

\* String.toLowerCase over the modelled addresses.
toLowerCase(str) == IF str = "0xA" THEN "0xa" ELSE str

SwapAddresses == {"0xa", "0xA", "0xb"}

TxHashes == {"0x01", "0x02"}

\* What the subgraph can answer for a slice: up to MaxSwaps swaps.
FetchedSwaps ==
    UNION { [1..n -> [txHash : TxHashes, initiator : SwapAddresses,
                      txOrigin : {"0xa", "0xb"}]] : n \in 0..MaxSwaps }

\* The epoch asked for and the two configured start epochs.
SwapEpochs == 11..13

\* lines 129-153, after the fetch: what the call answers for the fetched swaps.
getSuccessfulSwaps(swaps, epoch, GasRefundTxOriginCheckStartEpoch, GasRefundDeduplicationStartEpoch) ==
    LET swapsWithTxOriginEqMsgSender ==
            SelectSeq(swaps, LAMBDA swap :
                       toLowerCase(swap.initiator) = toLowerCase(swap.txOrigin))
        uniqSwapTxHashes ==
            { swapsWithTxOriginEqMsgSender[i].txHash :
                i \in 1..Len(swapsWithTxOriginEqMsgSender) }
    IN IF epoch < GasRefundTxOriginCheckStartEpoch
       THEN [at |-> "returned", result |-> swaps]
       ELSE IF epoch < GasRefundDeduplicationStartEpoch
       THEN [at |-> "returned", result |-> swapsWithTxOriginEqMsgSender]
       ELSE IF Cardinality(uniqSwapTxHashes) # Len(swapsWithTxOriginEqMsgSender)
       THEN [at |-> "failed", result |-> << >>]
       ELSE [at |-> "returned", result |-> swapsWithTxOriginEqMsgSender]

InitSwaps ==
    /\ ValidationAtRest
    /\ \E epoch \in SwapEpochs, txOriginEpoch \in SwapEpochs, dedupEpoch \in SwapEpochs :
          call = [op |-> "getSuccessfulSwaps", at |-> "called", epoch |-> epoch,
                  GasRefundTxOriginCheckStartEpoch |-> txOriginEpoch,
                  GasRefundDeduplicationStartEpoch |-> dedupEpoch,
                  swaps |-> << >>, result |-> << >>]

\* line 129: the subgraph answers.
FetchSwaps ==
    /\ call.op = "getSuccessfulSwaps" /\ call.at = "called"
    /\ \E swaps \in FetchedSwaps :
          call' = [call EXCEPT !.at = "fetched", !.swaps = swaps]
    /\ UNCHANGED validationVars

\* lines 131-153
QualifySwaps ==
    /\ call.op = "getSuccessfulSwaps" /\ call.at = "fetched"
    /\ LET r == getSuccessfulSwaps(call.swaps, call.epoch,
                                   call.GasRefundTxOriginCheckStartEpoch,
                                   call.GasRefundDeduplicationStartEpoch)
       IN call' = [call EXCEPT !.at = r.at, !.result = r.result]
    /\ UNCHANGED validationVars

NextSwaps == FetchSwaps \/ QualifySwaps

SpecSwaps == InitSwaps /\ [][NextSwaps]_vars

HasDuplicateTxHash(seq) ==
    \E i, j \in 1..Len(seq) : i # j /\ seq[i].txHash = seq[j].txHash

\* C13: for an epoch >= the deduplication start epoch, whatever the two
\* configured start epochs, getSuccessfulSwaps fails whenever two fetched swaps
\* share a txHash, and never returns two swaps with the same txHash.
C13_DuplicatesAreFatal ==
    (/\ call.op = "getSuccessfulSwaps"
     /\ call.at \in {"returned", "failed"}
     /\ call.epoch >= call.GasRefundDeduplicationStartEpoch) =>
        /\ HasDuplicateTxHash(call.swaps) => call.at = "failed"
        /\ call.at = "returned" => ~HasDuplicateTxHash(call.result)

\* ------------------------------------------- tx fees: the two computations
\* The days a swap can be of, and the swaps of a slice (or of a partition):
\* who sent it, its day, and whether the sender's stake reaches the minimum.
Days == {1, 2}

IndexedSwaps ==
    UNION { [1..n -> [txOrigin : Addresses, timestamp : Days, stakeIsEnough : BOOLEAN]] :
              n \in 0..MaxSwaps }

\* resolvePrice / findSameDayPrice: the rate of the day, Undefined when the
\* daily rates hold no point of that day.
resolvePrice(pricedDays, timestamp) ==
    IF timestamp \in pricedDays THEN Some(timestamp) ELSE Undefined

InitFees ==
    /\ ValidationAtRest
    /\ \E op \in {"computeSuccessfulSwapsTxFeesRefund", "computeAccumulatedTxFeesByAddress"},
          swaps \in IndexedSwaps, pricedDays \in SUBSET Days,
          spentAccounts \in SUBSET Addresses, globalSpent \in BOOLEAN :
          call = [op |-> op, at |-> "running", swaps |-> swaps,
                  pricedDays |-> pricedDays,
                  spentAccounts |-> IF op = "computeSuccessfulSwapsTxFeesRefund"
                                    THEN spentAccounts ELSE {},
                  globalSpent |-> IF op = "computeSuccessfulSwapsTxFeesRefund"
                                  THEN globalSpent ELSE FALSE,
                  todo |-> 1..Len(swaps), refunded |-> {}, skipped |-> {}]

\* successful-swap-tx-indexing.ts lines 86-200: one callback of the
\* Promise.all, for any swap not yet handled (the callbacks interleave).
RefundSwapTx ==
    /\ call.op = "computeSuccessfulSwapsTxFeesRefund" /\ call.at = "running"
    /\ \E i \in call.todo :
          LET swap == call.swaps[i]
              currencyRate == resolvePrice(call.pricedDays, swap.timestamp)
          IN IF \/ ~swap.stakeIsEnough
                \/ call.globalSpent
                \/ swap.txOrigin \in call.spentAccounts
             THEN call' = [call EXCEPT !.todo = @ \ {i}, !.skipped = @ \cup {i}]
             ELSE IF ~IsSet(currencyRate)
             THEN call' = [call EXCEPT !.at = "failed", !.todo = @ \ {i}]
             ELSE call' = [call EXCEPT !.todo = @ \ {i}, !.refunded = @ \cup {i}]
    /\ UNCHANGED validationVars

\* transaction-fees.ts lines 72-104: the forEach, swap after swap.
AccumulateSwapTxFee ==
    /\ call.op = "computeAccumulatedTxFeesByAddress" /\ call.at = "running"
    /\ call.todo # {}
    /\ LET i == CHOOSE k \in call.todo : \A m \in call.todo : k <= m
           swap == call.swaps[i]
           pspRateSameDay == resolvePrice(call.pricedDays, swap.timestamp)
       IN IF ~IsSet(pspRateSameDay)
          THEN call' = [call EXCEPT !.todo = @ \ {i}, !.skipped = @ \cup {i}]
          ELSE call' = [call EXCEPT !.todo = @ \ {i}, !.refunded = @ \cup {i}]
    /\ UNCHANGED validationVars

\* Every swap was handled: the computation returns.
ReturnFees ==
    /\ call.op \in {"computeSuccessfulSwapsTxFeesRefund",
                     "computeAccumulatedTxFeesByAddress"}
    /\ call.at = "running"
    /\ call.todo = {}
    /\ call' = [call EXCEPT !.at = "returned"]
    /\ UNCHANGED validationVars

NextFees == RefundSwapTx \/ AccumulateSwapTxFee \/ ReturnFees

SpecFees == InitFees /\ [][NextFees]_vars

\* The swaps handled so far that qualify for a refund (stake, budgets) and
\* whose day has no price point.
QualifyingWithoutPrice ==
    { i \in (1..Len(call.swaps)) \ call.todo :
        /\ ~IsSet(resolvePrice(call.pricedDays, call.swaps[i].timestamp))
        /\ call.swaps[i].stakeIsEnough
        /\ ~call.globalSpent
        /\ call.swaps[i].txOrigin \notin call.spentAccounts }

\* C14: in both computations a qualifying swap without a same-day price point
\* makes the computation fail: the computation never goes on, or returns,
\* having handled such a swap.
C14_MissingPriceIsFatal ==
    (/\ call.op \in {"computeSuccessfulSwapsTxFeesRefund",
                      "computeAccumulatedTxFeesByAddress"}
     /\ QualifyingWithoutPrice # {}) => call.at = "failed"

\* ---------------------------------------- startComputingGasRefundAllChains
\* GRP_SUPPORTED_CHAINS: two of the chains.
GRP_SUPPORTED_CHAINS == {"mainnet", "bsc"}

\* The epochs the current epoch can be, and a chain's roots can be of.
OrchestratorEpochs == GasRefundGenesisEpoch..(GasRefundGenesisEpoch + MaxEpochsAhead)

\* GasRefundParticipation.max('epoch', isCompleted: false): 0 stands for null.
LastEpochsProcessed == {0, GasRefundGenesisEpoch - 1} \cup OrchestratorEpochs

InitOrchestrator ==
    /\ ValidationAtRest
    /\ \E lastEpochProcessed \in [GRP_SUPPORTED_CHAINS -> LastEpochsProcessed],
          merkleRoots \in SUBSET (GRP_SUPPORTED_CHAINS \X OrchestratorEpochs),
          currentEpoch \in OrchestratorEpochs :
          call = [op |-> "startComputingGasRefundAllChains", at |-> "running",
                  lastEpochProcessed |-> lastEpochProcessed,
                  merkleRoots |-> merkleRoots,
                  currentEpoch |-> currentEpoch,
                  workers |-> [chainId \in GRP_SUPPORTED_CHAINS |->
                                  [status |-> "started", epoch |-> 0, reason |-> "",
                                   computed |-> {}]],
                  exitCode |-> -1]

\* lines 26-41: a chain's worker finds its start epoch.
WorkerStart(chainId) ==
    /\ call.op = "startComputingGasRefundAllChains" /\ call.at = "running"
    /\ call.workers[chainId].status = "started"
    /\ LET lastEpochProcessed == call.lastEpochProcessed[chainId]
           startEpoch == IF lastEpochProcessed = 0 THEN GasRefundGenesisEpoch
                         ELSE lastEpochProcessed
       IN IF startEpoch >= GasRefundGenesisEpoch
          THEN call' = [call EXCEPT !.workers[chainId].status = "looping",
                                    !.workers[chainId].epoch = startEpoch]
          ELSE call' = [call EXCEPT !.workers[chainId].status = "rejected",
                                    !.workers[chainId].reason = "epoch < genesis_epoch"]
    /\ UNCHANGED validationVars

\* lines 43-64: one turn of a chain's loop; the calc times may not resolve
\* and computeGasRefundAllTxs may throw.
WorkerEpoch(chainId) ==
    /\ call.op = "startComputingGasRefundAllChains" /\ call.at = "running"
    /\ call.workers[chainId].status = "looping"
    /\ LET epoch == call.workers[chainId].epoch
       IN IF ~(epoch <= call.currentEpoch)
          THEN call' = [call EXCEPT !.workers[chainId].status = "fulfilled"]
          ELSE \E calcTimesResolved \in BOOLEAN, computeThrows \in BOOLEAN :
                  IF ~calcTimesResolved
                  THEN call' = [call EXCEPT
                                   !.workers[chainId].status = "rejected",
                                   !.workers[chainId].reason = "could not resolve epoch time"]
                  ELSE IF << chainId, epoch >> \in call.merkleRoots
                  THEN call' = [call EXCEPT
                                   !.workers[chainId].status = "rejected",
                                   !.workers[chainId].reason = "merkle root already exists"]
                  ELSE IF computeThrows
                  THEN call' = [call EXCEPT
                                   !.workers[chainId].status = "rejected",
                                   !.workers[chainId].reason = "computeGasRefundAllTxs"]
                  ELSE call' = [call EXCEPT
                                   !.workers[chainId].epoch = epoch + 1,
                                   !.workers[chainId].computed = @ \cup {epoch}]
    /\ UNCHANGED validationVars

\* A rejection-fast join (Promise.all): the process exits at the first
\* rejection, or when every worker has fulfilled.
Exit_RejectFast ==
    /\ call.op = "startComputingGasRefundAllChains" /\ call.at = "running"
    /\ \/ \E chainId \in GRP_SUPPORTED_CHAINS :
             call.workers[chainId].status = "rejected"
       \/ \A chainId \in GRP_SUPPORTED_CHAINS :
             call.workers[chainId].status = "fulfilled"
    /\ call' = [call EXCEPT
                   !.at = "exited",
                   !.exitCode = IF \E chainId \in GRP_SUPPORTED_CHAINS :
                                      call.workers[chainId].status = "rejected"
                                THEN 1 ELSE 0]
    /\ UNCHANGED validationVars

\* lines 69-84: Promise.allSettled has resolved; the process exits.
Exit ==
    /\ call.op = "startComputingGasRefundAllChains" /\ call.at = "running"
    /\ \A chainId \in GRP_SUPPORTED_CHAINS :
          call.workers[chainId].status \in {"fulfilled", "rejected"}
    /\ call' = [call EXCEPT
                   !.at = "exited",
                   !.exitCode = IF \E chainId \in GRP_SUPPORTED_CHAINS :
                                      call.workers[chainId].status = "rejected"
                                THEN 1 ELSE 0]
    /\ UNCHANGED validationVars

NextOrchestrator ==
    \/ \E chainId \in GRP_SUPPORTED_CHAINS : WorkerStart(chainId)
    \/ \E chainId \in GRP_SUPPORTED_CHAINS : WorkerEpoch(chainId)
    \/ Exit

SpecOrchestrator == InitOrchestrator /\ [][NextOrchestrator]_vars

\* C15: when a merkle root exists for (chainId, epoch) and the worker of the
\* chain reaches that epoch (its calc times resolved), the worker skips the
\* epoch without error: it goes on with the next epoch and is not rejected.
C15_ExistingRootIsSkipped ==
    [][\A chainId \in GRP_SUPPORTED_CHAINS :
          LET worker == call.workers[chainId]
              after == call'.workers[chainId]
          IN (/\ call.op = "startComputingGasRefundAllChains"
              /\ worker.status = "looping"
              /\ worker.epoch <= call.currentEpoch
              /\ << chainId, worker.epoch >> \in call.merkleRoots
              /\ after # worker
              /\ after.reason # "could not resolve epoch time") =>
                 /\ after.status = "looping"
                 /\ after.epoch = worker.epoch + 1
                 /\ worker.epoch \notin after.computed]_vars

Settled(chainId) == call.workers[chainId].status \in {"fulfilled", "rejected"}

\* C16: a worker that has not settled can always take its next step, whatever
\* the other workers have done, and the process has not exited; once the
\* process has exited every worker has settled, and the exit code is 1 if and
\* only if some worker was rejected (0 otherwise).
C16_SettledJoin ==
    call.op = "startComputingGasRefundAllChains" =>
        /\ \A chainId \in GRP_SUPPORTED_CHAINS :
              ~Settled(chainId) =>
                  /\ call.at = "running"
                  /\ ENABLED (WorkerStart(chainId) \/ WorkerEpoch(chainId))
        /\ call.at = "running" => call.exitCode = -1
        /\ call.at = "exited" =>
              /\ \A chainId \in GRP_SUPPORTED_CHAINS : Settled(chainId)
              /\ call.exitCode \in {0, 1}
              /\ call.exitCode = 1 <=>
                    \E chainId \in GRP_SUPPORTED_CHAINS :
                        call.workers[chainId].status = "rejected"

\* One worker was rejected, another went on to compute an epoch and
\* fulfilled, and the process exited with code 1.
C16_Witness ==
    /\ call.op = "startComputingGasRefundAllChains"
    /\ call.at = "exited" /\ call.exitCode = 1
    /\ \E failed, other \in GRP_SUPPORTED_CHAINS :
          /\ call.workers[failed].status = "rejected"
          /\ call.workers[other].status = "fulfilled"
          /\ call.workers[other].computed # {}

\* -------------------------------------------------------- computeMerkleData
\* Byte strings are written as text; hashes are kept symbolic, so that two
\* hashes are equal only if their inputs are.
MerkleAddresses == {"0xa1", "0xb2"}
AmountValue == ("10" :> 10) @@ ("25" :> 25) @@ ("7" :> 7)
MerkleAmounts == DOMAIN AmountValue
Claimables == [address : MerkleAddresses, amount : MerkleAmounts]

\* utils.keccak256 of ethers: an injective function of the bytes.
keccak256(data) == "keccak256(" \o data \o ")"

\* utils.keccak256 is given a hex string: one of odd length is not bytes.
IsBytesLike(hexString) == Len(hexString) % 2 = 0

\* Buffer.prototype.toString('hex'), and the toString a plain object has.
BufferToHex(buffer) == "hex(" \o buffer \o ")"
ObjectToString(object) == "[object Object]"

RECURSIVE SumAmounts(_)
SumAmounts(amounts) ==
    IF amounts = << >> THEN 0
    ELSE SumAmounts(Tail(amounts)) + AmountValue[Head(amounts).amount]

\* Keys listed from the newest insertion to the oldest.
RECURSIVE ObjectKeys_NewestFirst(_)
ObjectKeys_NewestFirst(hashes) ==
    IF hashes = << >> THEN << >>
    ELSE LET front == ObjectKeys_NewestFirst(SubSeq(hashes, 1, Len(hashes) - 1))
             last == hashes[Len(hashes)]
         IN IF \E i \in 1..Len(front) : front[i] = last THEN front
            ELSE << last >> \o front

\* Object.keys of hashedClaimabled (lines 18-28): the distinct hashes, in the
\* order of their first insertion.
RECURSIVE ObjectKeys(_)
ObjectKeys(hashes) ==
    IF hashes = << >> THEN << >>
    ELSE LET front == ObjectKeys(SubSeq(hashes, 1, Len(hashes) - 1))
             last == hashes[Len(hashes)]
         IN IF \E i \in 1..Len(front) : front[i] = last THEN front
            ELSE Append(front, last)

\* merkletreejs, default options: a layer is hashed pairwise, left then
\* right; the last node of a layer of odd length goes up unhashed.
createHashes(nodes) ==
    [i \in 1..((Len(nodes) + 1) \div 2) |->
        IF 2 * i <= Len(nodes) THEN keccak256(nodes[2 * i - 1] \o nodes[2 * i])
        ELSE nodes[2 * i - 1]]

RECURSIVE MerkleTree(_)
MerkleTree(nodes) ==
    IF Len(nodes) <= 1 THEN << nodes >>
    ELSE << nodes >> \o MerkleTree(createHashes(nodes))

getRoot(layers) == layers[Len(layers)][1]

\* merkletreejs getProof: for every layer the sibling of the node on the
\* path, with the side it is on; index counts from 0.
RECURSIVE ProofFrom(_, _, _)
ProofFrom(layers, i, index) ==
    IF i > Len(layers) THEN << >>
    ELSE LET isRightNode == index % 2 = 1
             pairIndex == IF isRightNode THEN index - 1 ELSE index + 1
             rest == ProofFrom(layers, i + 1, index \div 2)
         IN IF pairIndex < Len(layers[i])
            THEN << [position |-> IF isRightNode THEN "left" ELSE "right",
                     data |-> layers[i][pairIndex + 1]] >> \o rest
            ELSE rest

getProof(layers, leaf) ==
    LET leaves == layers[1]
        index == CHOOSE i \in 1..Len(leaves) : leaves[i] = leaf
    IN ProofFrom(layers, 1, index - 1)

computeMerkleData(amounts, epoch) ==
    IF \E i \in 1..Len(amounts) :
          ~IsBytesLike(amounts[i].address \o amounts[i].amount)
    THEN [threw |-> TRUE]
    ELSE
    LET totalAmount == SumAmounts(amounts)
        hashes == [i \in 1..Len(amounts) |->
                      keccak256(amounts[i].address \o amounts[i].amount)]
        hashedClaimabled(hash) ==
            LET last == CHOOSE i \in 1..Len(amounts) :
                            /\ hashes[i] = hash
                            /\ \A j \in (i + 1)..Len(amounts) : hashes[j] # hash
            IN amounts[last]
        allLeaves == ObjectKeys(hashes)
        tree == MerkleTree(allLeaves)
        merkleRoot == BufferToHex(getRoot(tree))
        merkleLeaves ==
            [i \in 1..Len(allLeaves) |->
                LET leaf == allLeaves[i]
                    proof == getProof(tree, leaf)
                IN [address |-> hashedClaimabled(leaf).address,
                    amount |-> hashedClaimabled(leaf).amount,
                    epoch |-> epoch,
                    merkleProofs |-> [k \in 1..Len(proof) |->
                                         ObjectToString(proof[k])]]]
    IN [threw |-> FALSE,
        root |-> [merkleRoot |-> merkleRoot, totalAmount |-> totalAmount,
                  epoch |-> epoch],
        leaves |-> merkleLeaves]

ClaimableLists ==
    UNION {[1..n -> Claimables] : n \in 1..MaxClaimables}

InitMerkle ==
    /\ ValidationAtRest
    /\ \E amounts \in ClaimableLists :
          call = [op |-> "computeMerkleData", at |-> "called",
                  amounts |-> amounts, epoch |-> GasRefundGenesisEpoch]

CallComputeMerkleData ==
    /\ call.op = "computeMerkleData" /\ call.at = "called"
    /\ call' = [op |-> "computeMerkleData", at |-> "returned",
                amounts |-> call.amounts, epoch |-> call.epoch,
                result |-> computeMerkleData(call.amounts, call.epoch)]
    /\ UNCHANGED validationVars

NextMerkle == CallComputeMerkleData

SpecMerkle == InitMerkle /\ [][NextMerkle]_vars

\* The bytes a hex string stands for, among the nodes of the tree; a string
\* that is no hex string of a node stands for no bytes.
HexToBuffer(hexString, layers) ==
    LET nodes == {layers[i][j] : << i, j >> \in
                     {ij \in (1..Len(layers)) \X (1..MaxClaimables) :
                         ij[2] <= Len(layers[ij[1]])}}
    IN IF \E node \in nodes : BufferToHex(node) = hexString
       THEN CHOOSE node \in nodes : BufferToHex(node) = hexString
       ELSE ""

\* The path applied to a hash with the node hash of the tree, every element
\* on the side given for it.
RECURSIVE ApplyProof(_, _, _, _)
ApplyProof(hash, merkleProofs, positions, layers) ==
    IF merkleProofs = << >> THEN hash
    ELSE LET sibling == HexToBuffer(Head(merkleProofs), layers)
             parent == IF Head(positions) = "left"
                       THEN keccak256(sibling \o hash)
                       ELSE keccak256(hash \o sibling)
         IN ApplyProof(parent, Tail(merkleProofs), Tail(positions), layers)

\* C17: for every non-empty list given to computeMerkleData, the
\* merkleProofs of every emitted leaf, applied to the hash of the leaf (each
\* element on the side that fits), recompute the emitted merkleRoot.
C17_ProofsRecomputeRoot ==
    (call.op = "computeMerkleData" /\ call.at = "returned"
        /\ ~call.result.threw) =>
        \A i \in 1..Len(call.result.leaves) :
            LET emitted == call.result.leaves[i]
                layers == MerkleTree(ObjectKeys(
                              [k \in 1..Len(call.amounts) |->
                                  keccak256(call.amounts[k].address
                                            \o call.amounts[k].amount)]))
            IN \E positions \in [1..Len(emitted.merkleProofs) -> {"left", "right"}] :
                  BufferToHex(ApplyProof(
                      keccak256(emitted.address \o emitted.amount),
                      emitted.merkleProofs, positions, layers))
                  = call.result.root.merkleRoot

\* --------------------------------------------- getAllGasRefundDataForAddress
\* The epochs the current epoch can be when the API is asked.
ApiCurrentEpochs ==
    GasRefundGenesisEpoch..(GasRefundGenesisEpoch + MaxEpochsAhead + 1)

\* GasRefundParticipation rows: of an epoch up to the current one.
Participations ==
    [chainId : GRP_SUPPORTED_CHAINS, address : MerkleAddresses,
     epoch : ApiCurrentEpochs, isCompleted : BOOLEAN,
     refundedAmountPSP : {"10", "25"}, merkleProofs : {<< >>}]

ParticipationTables ==
    UNION {[1..n -> Participations] : n \in 0..MaxParticipations}

\* lines 103-111, without the isCompleted condition of the where clause.
fetchMerkleData_AnyCompletion(table, network, address) ==
    LET Keep(row) == row.address = address /\ row.chainId = network
    IN SelectSeq(table, Keep)

\* lines 103-111
fetchMerkleData(table, network, address) ==
    LET Keep(row) == /\ row.address = address
                     /\ row.chainId = network
                     /\ row.isCompleted = TRUE
    IN SelectSeq(table, Keep)

\* MerkleRedeem.claimStatus(_liquidityProvider, _begin, _end): one flag per
\* epoch of _begin.._end.
claimStatus(claimed, begin, end) ==
    [i \in 1..(end - begin + 1) |-> (begin + i - 1) \in claimed]

\* lines 113-138: 0 stands for an epoch with no entry.
getClaimStatus(claimed, startEpoch, endEpoch) ==
    LET status == claimStatus(claimed, startEpoch, endEpoch)
        epochToClaimed == [epoch \in startEpoch..(startEpoch + Len(status) - 1) |->
                              status[epoch - startEpoch + 1]]
    IN IF Cardinality(DOMAIN epochToClaimed) = endEpoch - startEpoch + 1
       THEN Some(epochToClaimed)
       ELSE Undefined

RECURSIVE ReduceClaims(_, _, _)
ReduceClaims(merkleData, epochToClaimed, acc) ==
    IF merkleData = << >> THEN acc
    ELSE LET claim == Head(merkleData)
             next ==
                 IF claim.epoch \in DOMAIN epochToClaimed
                    /\ epochToClaimed[claim.epoch]
                 THEN acc
                 ELSE [totalClaimable |-> acc.totalClaimable
                                           + AmountValue[claim.refundedAmountPSP],
                       claims |-> Append(acc.claims,
                                     [epoch |-> claim.epoch,
                                      address |-> claim.address,
                                      merkleProofs |-> claim.merkleProofs,
                                      amount |-> claim.refundedAmountPSP])]
         IN ReduceClaims(Tail(merkleData), epochToClaimed, next)

\* lines 141-175
getAllGasRefundDataForAddress(table, claimed, currentEpoch, network, address) ==
    LET lastEpoch == currentEpoch - 1
        startEpoch == GasRefundGenesisEpoch
        endEpoch == IF lastEpoch > GasRefundGenesisEpoch THEN lastEpoch
                    ELSE GasRefundGenesisEpoch
        merkleData == fetchMerkleData(table, network, address)
        epochToClaimed == getClaimStatus(claimed, startEpoch, endEpoch)
    IN IF ~IsSet(epochToClaimed) THEN [threw |-> TRUE]
       ELSE LET acc == ReduceClaims(merkleData, epochToClaimed[1],
                                    [totalClaimable |-> 0, claims |-> << >>])
            IN [threw |-> FALSE,
                totalClaimable |-> acc.totalClaimable,
                claims |-> acc.claims]

\* The epochs claimed on the contract are epochs before the current one.
InitApi ==
    /\ ValidationAtRest
    /\ \E table \in ParticipationTables,
          currentEpoch \in ApiCurrentEpochs,
          network \in GRP_SUPPORTED_CHAINS,
          address \in MerkleAddresses :
          \E claimed \in SUBSET (GasRefundGenesisEpoch..(currentEpoch - 1)) :
              call = [op |-> "getAllGasRefundDataForAddress", at |-> "called",
                      table |-> table, claimed |-> claimed,
                      currentEpoch |-> currentEpoch,
                      network |-> network, address |-> address]

CallGetAllGasRefundDataForAddress ==
    /\ call.op = "getAllGasRefundDataForAddress" /\ call.at = "called"
    /\ call' = [call EXCEPT !.at = "returned"] @@
               [result |-> getAllGasRefundDataForAddress(
                               call.table, call.claimed, call.currentEpoch,
                               call.network, call.address)]
    /\ UNCHANGED validationVars

NextApi == CallGetAllGasRefundDataForAddress

SpecApi == InitApi /\ [][NextApi]_vars

\* The rows of the table that are claimable for (network, address).
ClaimableRows ==
    LET Keep(row) == /\ row.chainId = call.network
                     /\ row.address = call.address
                     /\ row.isCompleted
                     /\ row.epoch \notin call.claimed
    IN SelectSeq(call.table, Keep)

\* C18: the claims returned are exactly the rows of (chainId, address) that
\* are completed and whose epoch is not claimed: none of a claimed epoch,
\* none of a row that is not completed, and the total is their sum.
C18_ClaimsAreCompletedUnclaimedRows ==
    (call.op = "getAllGasRefundDataForAddress" /\ call.at = "returned") =>
        /\ ~call.result.threw
        /\ call.result.claims =
              [i \in 1..Len(ClaimableRows) |->
                  [epoch |-> ClaimableRows[i].epoch,
                   address |-> ClaimableRows[i].address,
                   merkleProofs |-> ClaimableRows[i].merkleProofs,
                   amount |-> ClaimableRows[i].refundedAmountPSP]]
        /\ call.result.totalClaimable = SumAmounts(call.result.claims)
        /\ \A i \in 1..Len(call.result.claims) :
              /\ call.result.claims[i].epoch \notin call.claimed
              /\ \E j \in 1..Len(call.table) :
                    /\ call.table[j].isCompleted
                    /\ call.table[j].chainId = call.network
                    /\ call.table[j].address = call.address
                    /\ call.table[j].epoch = call.result.claims[i].epoch
                    /\ call.table[j].refundedAmountPSP = call.result.claims[i].amount

\* One row of the address is returned as a claim while another row of the
\* address, not completed or of a claimed epoch, is not.
C18_Witness ==
    /\ call.op = "getAllGasRefundDataForAddress" /\ call.at = "returned"
    /\ Len(call.result.claims) = 1
    /\ \E j \in 1..Len(call.table) :
          /\ call.table[j].chainId = call.network
          /\ call.table[j].address = call.address
          /\ ~call.table[j].isCompleted
          /\ call.table[j].epoch \notin call.claimed
          /\ call.table[j].epoch # call.result.claims[1].epoch

\* ------------------------------------------- recomputation of a row's amounts
\* The epoch of the precision glitch and its two neighbours.
RecomputedEpochs ==
    (GasRefundPrecisionGlitchRefundedAmountsEpoch - 1)
        ..(GasRefundPrecisionGlitchRefundedAmountsEpoch + 1)

InitAmounts ==
    /\ ValidationAtRest
    /\ \E epoch \in RecomputedEpochs, gasUsedChainCurrency \in 1..MaxGasUsed,
          totalStakeAmountPSP \in Stakes, pspUsd \in 1..2 :
          call = [op |-> "recomputeAmounts", at |-> "called",
                  tx |-> [epoch |-> epoch,
                          gasUsedChainCurrency |-> gasUsedChainCurrency,
                          pspChainCurrency |-> 1,
                          totalStakeAmountPSP |-> totalStakeAmountPSP,
                          pspUsd |-> pspUsd]]

\* validateTransactions, lines 110-127, for one row.
RecomputeAmounts ==
    /\ call.op = "recomputeAmounts" /\ call.at = "called"
    /\ LET refundPercentage == getRefundPercent(call.tx.totalStakeAmountPSP)
       IN IF ~IsSet(refundPercentage)
          THEN call' = [op |-> "recomputeAmounts", at |-> "threw", tx |-> call.tx]
          ELSE call' = [op |-> "recomputeAmounts", at |-> "returned",
                        tx |-> call.tx,
                        refundPercentage |-> refundPercentage[1],
                        amounts |-> RecomputedAmounts(call.tx, refundPercentage[1])]
    /\ UNCHANGED validationVars

NextAmounts == RecomputeAmounts

SpecAmounts == InitAmounts /\ [][NextAmounts]_vars

\* refundPSP_raw of the row, in quarter base units, and the refundUSD the
\* general formula gives for it.
RawRefundPSP ==
    (call.tx.gasUsedChainCurrency \div call.tx.pspChainCurrency)
        * call.refundPercentage

GeneralRefundUSD == (RawRefundPSP * call.tx.pspUsd) \div PspUnit

\* C19: for a row of the precision glitch epoch refundUSD is computed from
\* refundPSP_raw rounded down to an integer, and is strictly smaller than the
\* refundUSD of the general formula; for a row of any other epoch refundUSD
\* is that of the general formula.
C19_GlitchEpochFloorsBeforeUSD ==
    (call.op = "recomputeAmounts" /\ call.at = "returned") =>
        IF call.tx.epoch = GasRefundPrecisionGlitchRefundedAmountsEpoch
        THEN /\ call.amounts.refundedAmountUSD =
                   ((RawRefundPSP \div PercentDenominator) * PercentDenominator
                       * call.tx.pspUsd) \div PspUnit
             /\ call.amounts.refundedAmountUSD < GeneralRefundUSD
        ELSE call.amounts.refundedAmountUSD = GeneralRefundUSD

\* C20: every row a run has classified as REJECTED has the persisted status
\* REJECTED; a rejected row does not stay IDLE.
C20_RejectedIsPersisted ==
    \A k \in 1..Len(classified) :
        classified[k].status = REJECTED =>
            db[classified[k].hash].status = REJECTED

\* The status the run gave the row it has just classified.
LastClassified == classified[Len(classified)].status

\* C21: when a row is classified while the validated rows of its address in
\* its year already sum to MAX_USD_ADDRESS_BUDGET_YEARLY, or the validated rows
\* of its year already sum to MAX_PSP_GLOBAL_BUDGET_YEARLY, the row is
\* classified REJECTED.
C21_RejectedOnceBudgetReached ==
    [][(pc = "row" /\ Len(classified') = Len(classified) + 1) =>
          LET tx == transactionsSlice[idx]
              ofYear == ValidatedOfYear(db, YearOf(tx.epoch))
          IN (\/ SumOver(db, OfAddress(db, ofYear, tx.address), "refundedAmountUSD")
                    >= MAX_USD_ADDRESS_BUDGET_YEARLY
              \/ SumOver(db, ofYear, "refundedAmountPSP")
                    >= MAX_PSP_GLOBAL_BUDGET_YEARLY) =>
                  classified'[Len(classified')].status = REJECTED]_vars

\* A row was classified REJECTED after the validated rows of its year had
\* reached the global budget, its own address having been refunded nothing.
C21_Witness ==
    /\ classified # << >>
    /\ LastClassified = REJECTED
    /\ LET tx == db[classified[Len(classified)].hash]
           ofYear == ValidatedOfYear(db, YearOf(tx.epoch))
       IN /\ SumOver(db, ofYear, "refundedAmountPSP") >= MAX_PSP_GLOBAL_BUDGET_YEARLY
          /\ OfAddress(db, ofYear, tx.address) = {}

C23_YearlyTotalsOfTheYear ==
    pc = "row" =>
        LET tx == transactionsSlice[idx]
            g == GuardianAtRow(guardian, prevEpoch, tx)
            ofYear == ValidatedOfYear(db, YearOf(tx.epoch))
        IN /\ g.totalPSPRefundedForYear <= SumOver(db, ofYear, "refundedAmountPSP")
           /\ \A a \in Addresses :
                 g.totalYearlyRefundedUSD[a] <=
                     SumOver(db, OfAddress(db, ofYear, a), "refundedAmountUSD")

\* C24: the idle-transactions error is raised only after the last page: when
\* a run ends on it, no page of the scan is left to process.
C24_IdleCheckAfterLastPage ==
    (pc = "failed" /\ err = "idle transactions") =>
        Len(findAll(db, startEpochForTxValidation, pageSize, offset)) = 0

\* C25: for every row classified VALIDATED the two capped amounts are both
\* set or both unset after the caps, so no run ends on the both-or-neither
\* assertion.
C25_BothOrNeither ==
    /\ err # "xnor"
    /\ pc = "row" =>
          LET tx == transactionsSlice[idx]
              r == ClassifyTx(GuardianAtRow(guardian, prevEpoch, tx), tx)
          IN r.newStatus = VALIDATED =>
                xnor(r.cappedRefundedAmountPSP, r.cappedRefundedAmountUSD)

\* C26: no cap computation hits its assertion: no run ends on a negative
\* capped USD amount or on a PSP amount capped by the global budget that is
\* not lower than the uncapped amount of the row, and the amounts a row is
\* given are USD >= 0 and PSP at most the uncapped amount.
C26_CapAssertionsHold ==
    /\ err \notin {"negative cap", "capped amount not lower"}
    /\ pc = "row" =>
          LET tx == transactionsSlice[idx]
              r == ClassifyTx(GuardianAtRow(guardian, prevEpoch, tx), tx)
              amounts == RecomputedAmounts(tx, getRefundPercent(tx.totalStakeAmountPSP)[1])
          IN /\ r.err \notin {"negative cap", "capped amount not lower"}
             /\ r.newStatus = VALIDATED =>
                   /\ r.usdAmount >= 0
                   /\ r.pspAmount <= amounts.refundedAmountPSP

\* The row about to be classified is capped by a dollar budget and, below
\* the amount that derives, by the global budget.
C26_Witness ==
    /\ pc = "row"
    /\ LET tx == transactionsSlice[idx]
           r == ClassifyTx(GuardianAtRow(guardian, prevEpoch, tx), tx)
       IN /\ r.err = ""
          /\ IsSet(r.cappedRefundedAmountUSD)
          /\ r.cappedRefundedAmountPSP[1]
                < UsdToPsp(r.cappedRefundedAmountUSD[1], tx.pspUsd)

\* ------------------------------------ computeSuccessfulSwapsTxFeesRefund
\* A datum that carries the amounts of the calculator, whatever is left.
pendingGasRefundDatum_Uncapped(g, hash, ts, address, profile) ==
    PendingRow(hash, ts, address, profile)

\* lines 148-196: the row staged for a swap, its amounts capped by what the
\* guardian of the indexing has left for the address.
pendingGasRefundDatum(g, hash, ts, address, profile) ==
    LET uncapped == PendingRow(hash, ts, address, profile)
    IN IF g.totalYearlyRefundedUSD[address] + uncapped.refundedAmountUSD
             > MAX_USD_ADDRESS_BUDGET_YEARLY
       THEN LET currRefundedAmountUSD ==
                    MAX_USD_ADDRESS_BUDGET_YEARLY - g.totalYearlyRefundedUSD[address]
            IN [uncapped EXCEPT
                   !.refundedAmountUSD = currRefundedAmountUSD,
                   !.refundedAmountPSP = UsdToPsp(currRefundedAmountUSD, profile.pspUsd)]
       ELSE uncapped

InitIndexing ==
    /\ ValidationAtRest
    /\ call = [op |-> "computeSuccessfulSwapsTxFeesRefund", at |-> "indexing",
               guardian |-> EmptyGuardian, rows |-> << >>]

\* lines 86-196 and 202-207, for one swap; swaps come in any order.
IndexSwap ==
    /\ call.op = "computeSuccessfulSwapsTxFeesRefund" /\ call.at = "indexing"
    /\ \E hash \in Hashes \ DOMAIN call.rows, ts \in Timestamps,
          address \in Addresses, profile \in SwapProfiles :
          IF \/ isMaxYearlyPSPGlobalBudgetSpent(call.guardian)
             \/ hasSpentYearlyUSDBudget(call.guardian, address)
          THEN call' = call
          ELSE LET row == pendingGasRefundDatum(call.guardian, hash, ts, address, profile)
               IN call' = [call EXCEPT
                     !.guardian = increaseTotalRefundedPSP(
                                      increaseYearlyRefundedUSD(@, address,
                                                                row.refundedAmountUSD),
                                      row.refundedAmountPSP),
                     !.rows = [h \in DOMAIN call.rows \cup {hash} |->
                                  IF h = hash THEN row ELSE call.rows[h]]]
    /\ UNCHANGED validationVars

\* validateTransactions, run from start to end on the rows indexed.
ValidateIndexed ==
    /\ call.op = "computeSuccessfulSwapsTxFeesRefund" /\ call.at = "indexing"
    /\ \E size \in PageSizes :
          call' = [op |-> "computeSuccessfulSwapsTxFeesRefund", at |-> "validated",
                   indexed |-> call.rows, run |-> RunPass(call.rows, size)]
    /\ UNCHANGED validationVars

NextIndexing == IndexSwap \/ ValidateIndexed

SpecIndexing == InitIndexing /\ [][NextIndexing]_vars

\* C27: after a pass, every row the pass has persisted as VALIDATED holds the
\* amounts the pass committed to the guardian for it.
C27_PersistedIsCommitted ==
    (call.op = "computeSuccessfulSwapsTxFeesRefund" /\ call.at = "validated") =>
        \A k \in 1..Len(call.run.classified) :
            LET row == call.run.db[call.run.classified[k].hash]
            IN row.status = VALIDATED =>
                  /\ row.refundedAmountUSD = call.run.classified[k].usdAmount
                  /\ row.refundedAmountPSP = call.run.classified[k].pspAmount

\* --------------------------------------------------------------------- C28
\* C28: classifying a row as REJECTED (lines 129-171) leaves the budget
\* guardian as the classification found it, that is after the cleaning an
\* epoch change asks for (lines 98-108): totalPSPRefundedForYear, every
\* address's yearly USD total and every address's epoch USD total are
\* unchanged; a row whose classification changes one of them is VALIDATED.
C28_RejectedLeavesGuardian ==
    [][(pc = "row" /\ Len(classified') = Len(classified) + 1)
        => LET tx == transactionsSlice[idx]
               epochChange == prevEpoch # tx.epoch
               yearChange ==
                   /\ epochChange
                   /\ (tx.epoch - GasRefundGenesisEpoch) % TOTAL_EPOCHS_IN_YEAR = 0
               psp == IF yearChange THEN 0 ELSE guardian.totalPSPRefundedForYear
               yearly == IF yearChange THEN ZeroByAddress
                         ELSE guardian.totalYearlyRefundedUSD
               epochly == IF epochChange THEN ZeroByAddress
                          ELSE guardian.totalRefundedUSDForEpoch
               same == /\ guardian'.totalPSPRefundedForYear = psp
                       /\ guardian'.totalYearlyRefundedUSD = yearly
                       /\ guardian'.totalRefundedUSDForEpoch = epochly
           IN /\ LastClassified' = REJECTED => same
              /\ ~same => LastClassified' = VALIDATED]_vars

\* A row was rejected at an epoch change, while the guardian holds spent budget.
C28_Witness ==
    /\ pc \in {"row", "count"}
    /\ Len(classified) > 1
    /\ LastClassified = REJECTED
    /\ db[classified[Len(classified)].hash].epoch
          # db[classified[Len(classified) - 1].hash].epoch
    /\ guardian.totalPSPRefundedForYear >= MAX_PSP_GLOBAL_BUDGET_YEARLY
    /\ \E a \in Addresses : guardian.totalYearlyRefundedUSD[a] > 0

\* --------------------------------------------------------------------- C29
\* C29: between two resets the budget accounting is monotonic. While a run is
\* under way (the state reload is at its start, its state is gone at its end)
\* no step lowers the global PSP total or the yearly or epoch USD total of an
\* address, except the emptying of the epoch totals at an epoch change and of
\* the yearly totals at a year boundary, after which the totals are at least
\* zero plus what the row adds; the amounts a row adds are never negative.
C29_MonotonicBudgetAccounting ==
    [][(pc \in {"fetch", "row", "count"})
        => LET tx == transactionsSlice[idx]
               epochChange == pc = "row" /\ prevEpoch # tx.epoch
               yearChange ==
                   /\ epochChange
                   /\ (tx.epoch - GasRefundGenesisEpoch) % TOTAL_EPOCHS_IN_YEAR = 0
           IN /\ guardian'.totalPSPRefundedForYear
                    >= (IF yearChange THEN 0 ELSE guardian.totalPSPRefundedForYear)
              /\ \A a \in Addresses :
                    /\ guardian'.totalYearlyRefundedUSD[a]
                          >= (IF yearChange THEN 0 ELSE guardian.totalYearlyRefundedUSD[a])
                    /\ guardian'.totalRefundedUSDForEpoch[a]
                          >= (IF epochChange THEN 0
                              ELSE guardian.totalRefundedUSDForEpoch[a])
              /\ \A k \in 1..Len(classified') : classified'[k].usdAmount >= 0
              /\ \A k \in 1..Len(classified') : classified'[k].pspAmount >= 0
      ]_vars

\* Two rows in a row were validated, each adding to the totals, the second
\* one to an epoch total as well.
C29_Witness ==
    /\ pc \in {"row", "count"}
    /\ Len(classified) > 1
    /\ LastClassified = VALIDATED
    /\ classified[1].status = VALIDATED
    /\ classified[1].pspAmount > 0
    /\ classified[Len(classified)].pspAmount > 0
    /\ guardian.totalPSPRefundedForYear > classified[1].pspAmount
    /\ \E a \in Addresses : guardian.totalRefundedUSDForEpoch[a] > 0

\* --------------------------------------------------------------------- C30
\* C30: what getSuccessfulSwaps returns for an epoch >= the tx origin check
\* start epoch is the fetched swaps without those whose initiator differs
\* from txOrigin other than by case, in the order fetched: no returned swap
\* has initiator # txOrigin and no other swap is missing; for an earlier
\* epoch it returns every fetched swap, in the order fetched.
C30_TxOriginCheckFromItsEpoch ==
    (call.op = "getSuccessfulSwaps" /\ call.at = "returned") =>
        LET SameAddress(a, b) == a = b \/ {a, b} = {"0xa", "0xA"}
            Kept(swap) == SameAddress(swap.initiator, swap.txOrigin)
            kept == { i \in 1..Len(call.swaps) : Kept(call.swaps[i]) }
            \* the position in the fetched swaps of the k-th swap kept
            Position(k) == CHOOSE i \in kept :
                              Cardinality({ j \in kept : j <= i }) = k
        IN IF call.epoch >= call.GasRefundTxOriginCheckStartEpoch
           THEN /\ \A k \in 1..Len(call.result) :
                      SameAddress(call.result[k].initiator, call.result[k].txOrigin)
                /\ Len(call.result) = Cardinality(kept)
                /\ \A k \in 1..Len(call.result) :
                      call.result[k] = call.swaps[Position(k)]
           ELSE call.result = call.swaps

\* From the check's epoch on, a call returned the second of two fetched swaps,
\* whose initiator is its txOrigin in another case, and not the first, whose
\* initiator is another address.
C30_Witness ==
    /\ call.op = "getSuccessfulSwaps" /\ call.at = "returned"
    /\ call.epoch >= call.GasRefundTxOriginCheckStartEpoch
    /\ Len(call.swaps) = 2
    /\ call.swaps[1].initiator = "0xb" /\ call.swaps[1].txOrigin = "0xa"
    /\ call.swaps[2].initiator = "0xA" /\ call.swaps[2].txOrigin = "0xa"
    /\ call.result = << call.swaps[2] >>

\* --------------------------------------------------------------------- C36
\* C36: for each chain, the epochs for which the orchestrator has run the
\* ingestion are epochs e with startEpoch <= e <= currentEpoch - 1, where
\* startEpoch >= GasRefundGenesisEpoch: never the current epoch.
C36_OnlyFinishedEpochs ==
    call.op = "startComputingGasRefundAllChains" =>
        \A chainId \in GRP_SUPPORTED_CHAINS :
            \A e \in call.workers[chainId].computed :
                /\ GasRefundGenesisEpoch <= e
                /\ (call.lastEpochProcessed[chainId] # 0
                        => call.lastEpochProcessed[chainId] <= e)
                /\ e <= call.currentEpoch - 1

RECURSIVE reduceGasRefundByAddress(_, _)
reduceGasRefundByAddress(accTxFeesByAddress, pspStakesByAddress) ==
    IF accTxFeesByAddress = << >> THEN [threw |-> FALSE, claimableAmounts |-> << >>]
    ELSE
    LET minStake == scale(500)
        n == Len(accTxFeesByAddress)
        acc == reduceGasRefundByAddress(SubSeq(accTxFeesByAddress, 1, n - 1),
                                        pspStakesByAddress)
        address == accTxFeesByAddress[n].address
        accTxFees == accTxFeesByAddress[n]
        stakedAmount == pspStakesByAddress[address]
        refundPercent == IF IsSet(stakedAmount) THEN getRefundPercent(stakedAmount[1])
                         ELSE Undefined
    IN IF acc.threw THEN acc
       ELSE IF IsSet(stakedAmount) /\ stakedAmount[1] < minStake THEN acc
       ELSE IF ~IsSet(refundPercent) THEN [acc EXCEPT !.threw = TRUE]
       ELSE [acc EXCEPT !.claimableAmounts =
                Append(@, [address |-> address,
                           amount |-> RoundHalfUp(accTxFees.accGasFeePSP * refundPercent[1],
                                                  PercentDenominator)])]

\* The accumulated fees of up to two addresses, in either order, and the
\* stake map: for each address no entry, or a stake around the minimum.
InitReduce ==
    /\ ValidationAtRest
    /\ LET fees == {1, 2, 8}
           entries == [address : Addresses, accGasFeePSP : fees]
           lists == { l \in UNION { [1..n -> entries] : n \in 0..2 } :
                        \A i, j \in 1..Len(l) : i # j => l[i].address # l[j].address }
           stakes == { Undefined, Some(0), Some(scale(500) - 1), Some(scale(500)),
                       Some(scale(5000)) }
       IN \E accTxFeesByAddress \in lists, pspStakesByAddress \in [Addresses -> stakes] :
             call = [op |-> "reduceGasRefundByAddress", at |-> "called",
                     accTxFeesByAddress |-> accTxFeesByAddress,
                     pspStakesByAddress |-> pspStakesByAddress]

CallReduceGasRefundByAddress ==
    /\ call.op = "reduceGasRefundByAddress" /\ call.at = "called"
    /\ call' = [call EXCEPT !.at = "returned"] @@
                [result |-> reduceGasRefundByAddress(call.accTxFeesByAddress,
                                                     call.pspStakesByAddress)]
    /\ UNCHANGED validationVars

NextReduce == CallReduceGasRefundByAddress

SpecReduce == InitReduce /\ [][NextReduce]_vars

\* C32: reduceGasRefundByAddress never fails; an address whose stake is below
\* the minimum stake, or that has accumulated fees but no entry in the stake
\* map, gets no claimable entry, and every address with a stake >= the
\* minimum gets exactly one.
C32_BelowMinimumIsIneligible ==
    (call.op = "reduceGasRefundByAddress" /\ call.at = "returned") =>
        LET claimable == call.result.claimableAmounts
            fees == call.accTxFeesByAddress
            Eligible(address) ==
                /\ IsSet(call.pspStakesByAddress[address])
                /\ call.pspStakesByAddress[address][1] >= scale(500)
        IN /\ ~call.result.threw
           /\ \A i \in 1..Len(fees) :
                 Cardinality({ k \in 1..Len(claimable) :
                                  claimable[k].address = fees[i].address })
                 = IF Eligible(fees[i].address) THEN 1 ELSE 0

\* ------------------- computeSuccessfulSwapsTxFeesRefund: slices and lookups
\* Slices of twelve hours.
SLICE_DURATION_TwelveHours == 12 * 3600

\* SLICE_DURATION = 6 * ONE_HOUR_SEC, in seconds.
SLICE_DURATION == 6 * 3600

\* lines 107-198: what the callback of a swap does once its gas used lookup
\* has answered, in one go (it awaits nothing more): the guardian afterwards,
\* the datum pushed if any, and the assertion that failed ("" when none did).
\* The swap carries what the lookups answer for it: its stake, its gas fee,
\* and whether a same day rate exists (priced).
refundSwap(g, hash, swap) ==
    LET address == swap.txOrigin
        skipped == [guardian |-> g, pushed |-> << >>, err |-> ""]
    IN IF isMaxYearlyPSPGlobalBudgetSpent(g) THEN skipped
       ELSE IF hasSpentYearlyUSDBudget(g, address) THEN skipped
       ELSE IF ~swap.priced THEN [skipped EXCEPT !.err = "currencyRate"]
       ELSE IF ~IsSet(getRefundPercent(swap.profile.totalStakeAmountPSP))
       THEN [skipped EXCEPT !.err = "refundPercent"]
       ELSE LET datum == [pendingGasRefundDatum(g, hash, 1, address, swap.profile)
                             EXCEPT !.timestamp = swap.timestamp]
            IN IF ~(datum.refundedAmountUSD >= 0)
               THEN [skipped EXCEPT !.err = "quantity cannot be negative"]
               ELSE [guardian |-> increaseTotalRefundedPSP(
                                      increaseYearlyRefundedUSD(g, address,
                                                                datum.refundedAmountUSD),
                                      datum.refundedAmountPSP),
                     pushed |-> << datum >>,
                     err |-> ""]

\* lines 44-53: the call, at the first test of its loop. The guardian is the
\* one loaded from the rows persisted before: nothing, or a1 refunded
\* 28,500,000 PSP.
InitIngestion ==
    /\ ValidationAtRest
    /\ LET startTimestamp == 1000
           before == increaseTotalRefundedPSP(
                         increaseYearlyRefundedUSD(EmptyGuardian, "a1",
                                                   28500000 * PercentDenominator),
                         28500000)
       IN \E endTimestamp \in {startTimestamp + SLICE_DURATION,
                                startTimestamp + SLICE_DURATION + 200},
             veryLastTimestampProcessed \in
                 {0, startTimestamp + 99, startTimestamp + SLICE_DURATION - 1,
                  startTimestamp + SLICE_DURATION},
             g \in {EmptyGuardian, before} :
             call = [op |-> "computeSuccessfulSwapsTxFeesRefund", at |-> "loop",
                     startTimestamp |-> startTimestamp,
                     endTimestamp |-> endTimestamp,
                     veryLastTimestampProcessed |-> veryLastTimestampProcessed,
                     _startTimestampSlice |->
                         IF startTimestamp > veryLastTimestampProcessed + 1
                         THEN startTimestamp ELSE veryLastTimestampProcessed + 1,
                     guardian |-> g, guardianAtSlice |-> g,
                     slices |-> << >>, swaps |-> << >>, awaiting |-> {},
                     pendingGasRefundTransactionData |-> << >>,
                     written |-> << >>, err |-> ""]

\* lines 52-102: the test of the loop, the break on a spent global budget,
\* the fetch of the slice's swaps, and every callback up to its gas used
\* lookup; the callback of a swapper below the minimum stake returns at once.
FetchSlice ==
    /\ call.op = "computeSuccessfulSwapsTxFeesRefund" /\ call.at = "loop"
    /\ IF ~(call._startTimestampSlice < call.endTimestamp)
          \/ isMaxYearlyPSPGlobalBudgetSpent(call.guardian)
       THEN call' = [call EXCEPT !.at = "returned"]
       ELSE LET _endTimestampSlice ==
                    Min(call._startTimestampSlice + SLICE_DURATION, call.endTimestamp)
                profiles ==
                    { [totalStakeAmountPSP |-> 500000 * PspUnit,
                       gasUsedChainCurrency |-> 28500000,
                       pspChainCurrency |-> 1, pspUsd |-> 1],
                      [totalStakeAmountPSP |-> scale(500),
                       gasUsedChainCurrency |-> 4 * 600000,
                       pspChainCurrency |-> 1, pspUsd |-> 1],
                      [totalStakeAmountPSP |-> scale(500) - 1,
                       gasUsedChainCurrency |-> 4 * 600000,
                       pspChainCurrency |-> 1, pspUsd |-> 1] }
                fetched == [txOrigin : Addresses, profile : profiles,
                            priced : BOOLEAN,
                            timestamp : {call._startTimestampSlice}]
            IN \E n \in 0..MaxSwapsPerSlice : \E swaps \in [1..n -> fetched] :
                  call' = [call EXCEPT
                     !.at = "slice",
                     !.slices = Append(@, [startTimestamp |-> call._startTimestampSlice,
                                           endTimestamp |-> _endTimestampSlice]),
                     !.swaps = swaps,
                     !.guardianAtSlice = call.guardian,
                     !.pendingGasRefundTransactionData = << >>,
                     !.awaiting = { i \in 1..n :
                                      ~(swaps[i].profile.totalStakeAmountPSP
                                            < scale(500)) }]
    /\ UNCHANGED validationVars

\* lines 102-199: the gas used lookup of one of the swaps answers, and its
\* callback runs to its end; a failed assertion rejects the Promise.all and
\* the call throws.
LookupAnswered ==
    /\ call.op = "computeSuccessfulSwapsTxFeesRefund" /\ call.at = "slice"
    /\ \E i \in call.awaiting :
          LET r == refundSwap(call.guardian, 10 * Len(call.slices) + i, call.swaps[i])
          IN IF r.err # ""
             THEN call' = [call EXCEPT !.at = "failed", !.err = r.err,
                                       !.awaiting = @ \ {i}]
             ELSE call' = [call EXCEPT
                     !.guardian = r.guardian,
                     !.pendingGasRefundTransactionData = @ \o r.pushed,
                     !.awaiting = @ \ {i}]
    /\ UNCHANGED validationVars

\* A write of every datum as soon as it is pushed.
WritePending_AsPushed ==
    /\ call.op = "computeSuccessfulSwapsTxFeesRefund" /\ call.at = "slice"
    /\ IF call.awaiting # {}
       THEN /\ Len(call.pendingGasRefundTransactionData) > 0
            /\ call' = [call EXCEPT
                  !.written = Append(@, call.pendingGasRefundTransactionData),
                  !.pendingGasRefundTransactionData = << >>]
       ELSE call' = [call EXCEPT
               !.written = IF Len(call.pendingGasRefundTransactionData) > 0
                           THEN Append(@, call.pendingGasRefundTransactionData)
                           ELSE @,
               !.at = "loop",
               !._startTimestampSlice = @ + SLICE_DURATION]
    /\ UNCHANGED validationVars

\* lines 200-207 and 55: every callback has returned; the data pushed are
\* written in one call of writePendingEpochData, and the loop steps on.
WritePending ==
    /\ call.op = "computeSuccessfulSwapsTxFeesRefund" /\ call.at = "slice"
    /\ call.awaiting = {}
    /\ call' = [call EXCEPT
          !.written = IF Len(call.pendingGasRefundTransactionData) > 0
                      THEN Append(@, call.pendingGasRefundTransactionData)
                      ELSE @,
          !.at = "loop",
          !._startTimestampSlice = @ + SLICE_DURATION]
    /\ UNCHANGED validationVars

NextIngestion == FetchSlice \/ LookupAnswered \/ WritePending

SpecIngestion == InitIngestion /\ [][NextIngestion]_vars

C35_SliceWrittenAtItsEnd ==
    [][call.op = "computeSuccessfulSwapsTxFeesRefund" =>
        LET SliceOf(datum) == datum.hash \div 10
        IN /\ call'.written # call.written
                => /\ call.at = "slice" /\ call.awaiting = {}
                   /\ call'.written
                         = Append(call.written, call.pendingGasRefundTransactionData)
                   /\ \A i \in 1..Len(call.pendingGasRefundTransactionData) :
                         SliceOf(call.pendingGasRefundTransactionData[i])
                             = Len(call.slices)
                   /\ \A k \in 1..Len(call.written) :
                         \A i \in 1..Len(call.written[k]) :
                             SliceOf(call.written[k][i]) < Len(call.slices)
           /\ call'.at = "failed"
                => /\ call'.written = call.written
                   /\ \A k \in 1..Len(call'.written) :
                         \A i \in 1..Len(call'.written[k]) :
                             SliceOf(call'.written[k][i]) < Len(call'.slices)
      ]_vars

\* The second slice failed on a swap without a same day rate after another
\* swap of the slice was pushed; the row of the first slice is written.
C35_Witness ==
    /\ call.op = "computeSuccessfulSwapsTxFeesRefund" /\ call.at = "failed"
    /\ call.err = "currencyRate"
    /\ Len(call.slices) = 2
    /\ Len(call.pendingGasRefundTransactionData) = 1
    /\ Len(call.written) = 1

\* --------------------------------------------------------------------- C34
\* C34: once the guardian reports the global PSP budget as spent, no step of
\* the call pushes a swap to the pending batch or fetches a slice, whichever
\* lookups are still to answer.
C34_NothingMoreOnceSpent ==
    [][(/\ call.op = "computeSuccessfulSwapsTxFeesRefund"
        /\ call.guardian.totalPSPRefundedForYear >= MAX_PSP_GLOBAL_BUDGET_YEARLY)
        => /\ call'.pendingGasRefundTransactionData
                 = call.pendingGasRefundTransactionData
           /\ call'.slices = call.slices]_vars

\* Two swaps of two addresses, both of stakers and with a rate: the one that
\* answered first spent the global budget and the other was not pushed.
C34_Witness ==
    /\ call.op = "computeSuccessfulSwapsTxFeesRefund" /\ call.at = "slice"
    /\ call.awaiting = {}
    /\ Len(call.swaps) = 2
    /\ call.swaps[1].txOrigin # call.swaps[2].txOrigin
    /\ \A i \in 1..2 :
          /\ call.swaps[i].priced
          /\ call.swaps[i].profile.totalStakeAmountPSP >= scale(500)
    /\ call.guardianAtSlice.totalPSPRefundedForYear < MAX_PSP_GLOBAL_BUDGET_YEARLY
    /\ call.guardian.totalPSPRefundedForYear >= MAX_PSP_GLOBAL_BUDGET_YEARLY
    /\ Len(call.pendingGasRefundTransactionData) = 1

\* --------------------------------------------------------------------- C38
\* C38: during ingestion, in whatever order the gas used lookups of a slice
\* answer, the guardian's USD total of an address never exceeds
\* MAX_USD_ADDRESS_BUDGET.
C38_AddressTotalWithinBudget ==
    call.op = "computeSuccessfulSwapsTxFeesRefund" =>
        \A a \in Addresses :
            call.guardian.totalYearlyRefundedUSD[a] <= MAX_USD_ADDRESS_BUDGET_YEARLY

\* Two swaps of one address were pushed in a slice, the second to answer
\* capped to what the first had left: the address's total is the maximum.
C38_Witness ==
    /\ call.op = "computeSuccessfulSwapsTxFeesRefund" /\ call.at = "slice"
    /\ call.awaiting = {}
    /\ Len(call.pendingGasRefundTransactionData) = 2
    /\ LET first == call.pendingGasRefundTransactionData[1]
           second == call.pendingGasRefundTransactionData[2]
       IN /\ first.address = second.address
          /\ first.hash > second.hash
          /\ first.refundedAmountUSD = 28500000 * PercentDenominator
          /\ second.refundedAmountUSD = 1500000 * PercentDenominator
          /\ call.guardian.totalYearlyRefundedUSD[first.address]
                = MAX_USD_ADDRESS_BUDGET_YEARLY

\* --------------------------------------------------------------------- C39
\* C39: for the swaps of a slice and the guardian the slice started with, the
\* set of data staged, with their refundedAmountPSP and refundedAmountUSD, is
\* the same whatever the order in which the gas used lookups answered: it is
\* the set staged when they answer in the order of the swaps.
C39_StagedWhateverTheOrder ==
    (/\ call.op = "computeSuccessfulSwapsTxFeesRefund"
     /\ call.at = "slice" /\ call.awaiting = {}
     /\ \A i \in 1..Len(call.swaps) : call.swaps[i].priced) =>
        LET RECURSIVE InOrder(_)
            InOrder(n) ==
                IF n = 0 THEN [guardian |-> call.guardianAtSlice, staged |-> {}]
                ELSE LET upTo == InOrder(n - 1)
                         r == refundSwap(upTo.guardian, 10 * Len(call.slices) + n,
                                         call.swaps[n])
                     IN IF call.swaps[n].profile.totalStakeAmountPSP < scale(500)
                        THEN upTo
                        ELSE [guardian |-> r.guardian,
                              staged |-> upTo.staged
                                           \cup { r.pushed[k] : k \in 1..Len(r.pushed) }]
        IN { call.pendingGasRefundTransactionData[i] :
               i \in 1..Len(call.pendingGasRefundTransactionData) }
           = InOrder(Len(call.swaps)).staged

\* --------------------------------------------------------------------- C31
\* C31: every swap for which a refund is computed is of a swapper whose
\* stake is >= the minimum stake, and its tier is defined, at ingestion and
\* for the row persisted when it is validated again: the call never fails on
\* an undefined refund percent.
C31_TierIsDefined ==
    call.op = "computeSuccessfulSwapsTxFeesRefund" =>
        LET batches == Append(call.written, call.pendingGasRefundTransactionData)
        IN /\ call.err # "refundPercent"
           /\ \A k \in 1..Len(batches) : \A i \in 1..Len(batches[k]) :
                 /\ batches[k][i].totalStakeAmountPSP >= scale(500)
                 /\ IsSet(getRefundPercent(batches[k][i].totalStakeAmountPSP))
                 /\ ClassifyTx(EmptyGuardian, batches[k][i]).err # "refundPercentage"
           /\ \A i \in call.awaiting :
                 call.swaps[i].profile.totalStakeAmountPSP >= scale(500)

\* Of the two swaps of a slice the one of a swapper a base unit below the
\* minimum stake was left out, and the one of a swapper with exactly the
\* minimum stake was pushed, and written.
C31_Witness ==
    /\ call.op = "computeSuccessfulSwapsTxFeesRefund" /\ call.at = "loop"
    /\ Len(call.swaps) = 2
    /\ call.swaps[1].profile.totalStakeAmountPSP = scale(500) - 1
    /\ call.swaps[2].profile.totalStakeAmountPSP = scale(500)
    /\ Len(call.written) = 1
    /\ Len(call.written[1]) = 1
    /\ call.written[1][1].totalStakeAmountPSP = scale(500)
    /\ call.written[1][1].refundedAmountPSP = 600000


====
